---------------------------- MODULE Spec2Model ----------------------------
(***************************************************************************)
(* A model of the Photo-Watermark tool: the command line engine            *)
(* (src/watermark.py, class PhotoWatermark) and the GUI engine             *)
(* (src/watermark_gui.py, class WatermarkGUI).                             *)
(*                                                                         *)
(* The floats of the pointer handling are modelled as exact rationals      *)
(* <<n, d>> (d > 0, lowest terms) and the preview zoom as an exact         *)
(* decimal; the floats of the watermark sizing, of the resizing and of     *)
(* the opacities are binary floating point numbers with the roundings of   *)
(* IEEE doubles (and of C floats in the imaging library).  Python's // is  *)
(* \div (both floor), Python's int() on a float truncates toward zero.     *)
(***************************************************************************)
EXTENDS Integers, Sequences, FiniteSets, TLC

(***************************************************************************)
(* Bounds of the model.                                                    *)
(***************************************************************************)
\* image widths are MaxW-5 .. MaxW, content widths 1 .. MaxW+1
MaxW == 24
\* image heights are MaxH-2 .. MaxH, content heights 1 .. MaxH+1
MaxH == 22

(***************************************************************************)
(* Program constants.                                                      *)
(***************************************************************************)
\* the margin of the named anchors (the literal 10 of the positions table)
M == 10

Anchors ==
  {"top-left", "top-center", "top-right",
   "center-left", "center", "center-right",
   "bottom-left", "bottom-center", "bottom-right"}

\* position names the resolver does not know
Unrecognized == {"middle", ""}

(***************************************************************************)
(* Rational numbers: the values of Python floats.                          *)
(***************************************************************************)
Abs(i) == IF i < 0 THEN -i ELSE i

RECURSIVE GCD(_, _)
GCD(a, b) == IF b = 0 THEN a ELSE GCD(b, a % b)

\* the rational n/d in lowest terms with a positive denominator
Rat(n, d) ==
  LET s == IF d < 0 THEN -1 ELSE 1
      g == GCD(Abs(n), Abs(d))
  IN  <<(s * n) \div g, (s * d) \div g>>

RInt(i) == <<i, 1>>
RAdd(p, q) == Rat(p[1] * q[2] + q[1] * p[2], p[2] * q[2])
RMul(p, q) == Rat(p[1] * q[1], p[2] * q[2])
RDiv(p, q) == Rat(p[1] * q[2], p[2] * q[1])
RLe(p, q) == p[1] * q[2] <= q[1] * p[2]
RLt(p, q) == p[1] * q[2] < q[1] * p[2]
RMin(p, q) == IF RLe(p, q) THEN p ELSE q

\* Python's int(x) for a float x: truncation toward zero
int(q) == IF q[1] >= 0 THEN q[1] \div q[2] ELSE -((-q[1]) \div q[2])

(***************************************************************************)
(* Geometry resolver.                                                      *)
(***************************************************************************)
\* the positions table with a clamp to 0: a resolver that hides overflow
positions_clamped(img_width, img_height, wm_width, wm_height) ==
  LET c(v) == IF v < 0 THEN 0 ELSE v
  IN  [p \in Anchors |->
        CASE p = "top-left" -> <<10, 10>>
          [] p = "top-center" -> <<c((img_width - wm_width) \div 2), 10>>
          [] p = "top-right" -> <<c(img_width - wm_width - 10), 10>>
          [] p = "center-left" -> <<10, c((img_height - wm_height) \div 2)>>
          [] p = "center" -> <<c((img_width - wm_width) \div 2), c((img_height - wm_height) \div 2)>>
          [] p = "center-right" -> <<c(img_width - wm_width - 10), c((img_height - wm_height) \div 2)>>
          [] p = "bottom-left" -> <<10, c(img_height - wm_height - 10)>>
          [] p = "bottom-center" -> <<c((img_width - wm_width) \div 2), c(img_height - wm_height - 10)>>
          [] p = "bottom-right" -> <<c(img_width - wm_width - 10), c(img_height - wm_height - 10)>>]

\* the positions table with a division that truncates toward zero
positions_trunc(img_width, img_height, wm_width, wm_height) ==
  LET t(v) == IF v >= 0 THEN v \div 2 ELSE -((-v) \div 2)
  IN  [p \in Anchors |->
        CASE p = "top-left" -> <<10, 10>>
          [] p = "top-center" -> <<t(img_width - wm_width), 10>>
          [] p = "top-right" -> <<img_width - wm_width - 10, 10>>
          [] p = "center-left" -> <<10, t(img_height - wm_height)>>
          [] p = "center" -> <<t(img_width - wm_width), t(img_height - wm_height)>>
          [] p = "center-right" -> <<img_width - wm_width - 10, t(img_height - wm_height)>>
          [] p = "bottom-left" -> <<10, img_height - wm_height - 10>>
          [] p = "bottom-center" -> <<t(img_width - wm_width), img_height - wm_height - 10>>
          [] p = "bottom-right" -> <<img_width - wm_width - 10, img_height - wm_height - 10>>]

\* WatermarkGUI.get_position_coordinates: the dict `positions`
positions(img_width, img_height, wm_width, wm_height) ==
  [p \in Anchors |->
    CASE p = "top-left" -> <<10, 10>>
      [] p = "top-center" -> <<(img_width - wm_width) \div 2, 10>>
      [] p = "top-right" -> <<img_width - wm_width - 10, 10>>
      [] p = "center-left" -> <<10, (img_height - wm_height) \div 2>>
      [] p = "center" -> <<(img_width - wm_width) \div 2, (img_height - wm_height) \div 2>>
      [] p = "center-right" -> <<img_width - wm_width - 10, (img_height - wm_height) \div 2>>
      [] p = "bottom-left" -> <<10, img_height - wm_height - 10>>
      [] p = "bottom-center" -> <<(img_width - wm_width) \div 2, img_height - wm_height - 10>>
      [] p = "bottom-right" -> <<img_width - wm_width - 10, img_height - wm_height - 10>>]

\* positions.get(position, <default>) with the default at the top-left
positions_get_top_left(table, position) ==
  IF position \in DOMAIN table THEN table[position] ELSE table["top-left"]

\* positions.get(position, positions['bottom-right'])
positions_get(table, position) ==
  IF position \in DOMAIN table THEN table[position] ELSE table["bottom-right"]

\* a resolver that rounds the manual offset down
get_position_coordinates_floor(image_size, watermark_size, position, manual_x, manual_y) ==
  IF position = "manual"
  THEN <<manual_x[1] \div manual_x[2], manual_y[1] \div manual_y[2]>>
  ELSE positions_get(positions(image_size[1], image_size[2],
                               watermark_size[1], watermark_size[2]), position)

\* WatermarkGUI.get_position_coordinates; manual_x, manual_y are floats
get_position_coordinates(image_size, watermark_size, position, manual_x, manual_y) ==
  IF position = "manual"
  THEN <<int(manual_x), int(manual_y)>>
  ELSE positions_get(positions(image_size[1], image_size[2],
                               watermark_size[1], watermark_size[2]), position)

\* PhotoWatermark.get_position_coordinates (the command line engine)
cli_get_position_coordinates(image_size, text_size, position) ==
  LET img_width == image_size[1]
      img_height == image_size[2]
      text_width == text_size[1]
      text_height == text_size[2]
      cli_positions ==
        [p \in Anchors |->
          CASE p = "top-left" -> <<10, 10>>
            [] p = "top-center" -> <<(img_width - text_width) \div 2, 10>>
            [] p = "top-right" -> <<img_width - text_width - 10, 10>>
            [] p = "center-left" -> <<10, (img_height - text_height) \div 2>>
            [] p = "center" -> <<(img_width - text_width) \div 2, (img_height - text_height) \div 2>>
            [] p = "center-right" -> <<img_width - text_width - 10, (img_height - text_height) \div 2>>
            [] p = "bottom-left" -> <<10, img_height - text_height - 10>>
            [] p = "bottom-center" -> <<(img_width - text_width) \div 2, img_height - text_height - 10>>
            [] p = "bottom-right" -> <<img_width - text_width - 10, img_height - text_height - 10>>]
  IN  IF position \in DOMAIN cli_positions
      THEN cli_positions[position]
      ELSE cli_positions["bottom-right"]

(***************************************************************************)
(* Decimal numbers: the preview zoom.  preview_scale starts at 1.0 and is  *)
(* only ever multiplied by 1.1 or 0.9, so its value is the decimal         *)
(* n / 10^p with n a natural number kept as its decimal digits, least      *)
(* significant first (11^25 does not fit a machine integer).               *)
(***************************************************************************)
RECURSIVE BigMulSmall(_, _, _)
\* the digits of b * m + carry
BigMulSmall(b, m, carry) ==
  IF b = <<>>
  THEN IF carry = 0 THEN <<>>
       ELSE <<carry % 10>> \o BigMulSmall(<<>>, m, carry \div 10)
  ELSE LET v == Head(b) * m + carry
       IN  <<v % 10>> \o BigMulSmall(Tail(b), m, v \div 10)

RECURSIVE BigToInt(_)
BigToInt(b) == IF b = <<>> THEN 0 ELSE Head(b) + 10 * BigToInt(Tail(b))

\* floor(b / 10^p)
DropLow(b, p) == IF p >= Len(b) THEN <<>> ELSE SubSeq(b, p + 1, Len(b))

\* b is a multiple of 10^p
LowZero(b, p) == \A i \in 1 .. p : i <= Len(b) => b[i] = 0

RECURSIVE Pow10(_)
Pow10(p) == IF p = 0 THEN 1 ELSE 10 * Pow10(p - 1)

\* b without its leading (highest) zeros
RECURSIVE BigNorm(_)
BigNorm(b) ==
  IF b = <<>> \/ b[Len(b)] # 0 THEN b ELSE BigNorm(SubSeq(b, 1, Len(b) - 1))

\* a <= b for digit sequences without leading zeros
BigLe(a, b) ==
  \/ Len(a) < Len(b)
  \/ /\ Len(a) = Len(b)
     /\ \/ a = b
        \/ \E i \in 1 .. Len(a) :
             /\ a[i] < b[i]
             /\ \A j \in (i + 1) .. Len(a) : a[j] = b[j]

\* 10^k as digits, lowest first
RECURSIVE TenPow(_)
TenPow(k) == IF k = 0 THEN <<1>> ELSE <<0>> \o TenPow(k - 1)

\* preview_scale = 1.0
Zoom1 == [n |-> <<1>>, p |-> 0]
\* z * 1.1 (f = 11) and z * 0.9 (f = 9)
ZoomMul(z, f) == [n |-> BigMulSmall(z.n, f, 0), p |-> z.p + 1]
\* 0.1 <= z: n >= 10^(p-1)
ZoomGeTenth(z) == Len(z.n) >= z.p
\* z <= 10: n <= 10^(p+1)
ZoomLeTen(z) ==
  \/ Len(z.n) <= z.p + 1
  \/ /\ Len(z.n) = z.p + 2
     /\ z.n[z.p + 2] = 1
     /\ LowZero(z.n, z.p + 1)
\* the zoom as a rational (for a zoom of few factors)
ZoomRat(z) == Rat(BigToInt(z.n), Pow10(z.p))

(***************************************************************************)
(* Binary floating point.  Where a product of a float is truncated to a    *)
(* pixel count or a channel level, the rounding of the float decides the   *)
(* result (int(100 * (29 / 100)) is 28), so these are computed as the      *)
(* machine does: a positive float is [m, e], the value m * 2^e, with m a   *)
(* natural number of at most prec bits kept as decimal digits, lowest      *)
(* first; each operation rounds to nearest, ties to even.  A Python float  *)
(* has 53 bits, a C float 24.                                              *)
(***************************************************************************)
Pow2(k) == 2 ^ k

\* the number of bits of the natural number i
IntBitLen(i) ==
  IF i = 0 THEN 0
  ELSE CHOOSE n \in 1 .. 31 : 2 ^ (n - 1) <= i /\ (n = 31 \/ i < 2 ^ n)

RECURSIVE BigDivSmall(_, _)
\* [q, r]: quotient digits and remainder of b divided by d
BigDivSmall(b, d) ==
  IF b = <<>>
  THEN [q |-> <<>>, r |-> 0]
  ELSE IF Len(b) >= 3 /\ d <= Pow2(20)
  THEN \* three digits in one step
       LET high == BigDivSmall(SubSeq(b, 4, Len(b)), d)
           cur == high.r * 1000 + b[3] * 100 + b[2] * 10 + b[1]
           c == cur \div d
       IN  [q |-> IF high.q # <<>>
                  THEN <<c % 10, (c \div 10) % 10, c \div 100>> \o high.q
                  ELSE BigNorm(<<c % 10, (c \div 10) % 10, c \div 100>>),
            r |-> cur % d]
  ELSE LET high == BigDivSmall(Tail(b), d)
           cur == high.r * 10 + Head(b)
       IN  [q |-> IF high.q = <<>> /\ cur \div d = 0 THEN <<>>
                  ELSE <<cur \div d>> \o high.q,
            r |-> cur % d]

RECURSIVE BigMulPow2(_, _)
\* b * 2^k
BigMulPow2(b, k) ==
  IF k <= 20 THEN BigMulSmall(b, Pow2(k), 0)
  ELSE BigMulPow2(BigMulSmall(b, Pow2(20), 0), k - 20)

RECURSIVE BitLen(_)
\* the number of bits of b
BitLen(b) ==
  IF Len(b) <= 6 THEN IntBitLen(BigToInt(b))
  ELSE 20 + BitLen(BigDivSmall(b, Pow2(20)).q)

RECURSIVE BigShr(_, _, _)
\* b / 2^k as [q, half, sticky]: the quotient, the highest bit shifted
\* out, and whether a lower bit shifted out was set
BigShr(b, k, sticky) ==
  IF k = 0 THEN [q |-> b, half |-> FALSE, sticky |-> sticky]
  ELSE IF k <= 20
  THEN LET d == BigDivSmall(b, Pow2(k))
           h == Pow2(k - 1)
       IN  [q |-> d.q, half |-> d.r >= h, sticky |-> sticky \/ d.r % h # 0]
  ELSE LET d == BigDivSmall(b, Pow2(20))
       IN  BigShr(d.q, k - 20, sticky \/ d.r # 0)

\* m * 2^e rounded to prec bits
FRound(m, e, prec) ==
  LET \* s is m shifted by k bits: to nearest, ties to even
      nearest(s, k) ==
        [m |-> IF s.half /\ (s.sticky \/ (s.q # <<>> /\ Head(s.q) % 2 = 1))
               THEN BigMulSmall(s.q, 1, 1) ELSE s.q,
         e |-> e + k]
      dropping(k) ==
        IF k <= 0 THEN [m |-> m, e |-> e] ELSE nearest(BigShr(m, k, FALSE), k)
  IN  dropping(BitLen(m) - prec)

\* a / b for natural numbers a and b > 0, in prec bits
FDiv(a, b, prec) ==
  LET k0 == prec + IntBitLen(b) - IntBitLen(a)
      \* a * 2^k divided by b
      scaled(k) == BigDivSmall(BigMulPow2(BigMulSmall(<<1>>, a, 0), k), b)
      \* the quotient d of a * 2^k by b: to nearest, ties to even
      nearest(d, k) ==
        [m |-> IF 2 * d.r > b \/ (2 * d.r = b /\ (d.q # <<>> /\ Head(d.q) % 2 = 1))
               THEN BigMulSmall(d.q, 1, 1) ELSE d.q,
         e |-> -k]
      with(k) == nearest(scaled(k), k)
  IN  IF a = 0 THEN [m |-> <<>>, e |-> 0]
      ELSE with(IF BitLen(scaled(k0).q) > prec THEN k0 - 1 ELSE k0)

\* i * f for a natural number i, in prec bits
FMul(i, f, prec) ==
  IF i = 0 \/ f.m = <<>> THEN [m |-> <<>>, e |-> 0]
  ELSE FRound(BigMulSmall(f.m, i, 0), f.e, prec)

\* int(f), (int)f, (UINT8)f for a float below 2^31
FTrunc(f) ==
  IF f.m = <<>> THEN 0
  ELSE IF f.e >= 0 THEN BigToInt(BigMulPow2(f.m, f.e))
  ELSE BigToInt(BigShr(f.m, -f.e, FALSE).q)

RECURSIVE BigAdd(_, _, _)
\* the digits of a + b + carry
BigAdd(a, b, carry) ==
  IF a = <<>> THEN BigMulSmall(b, 1, carry)
  ELSE IF b = <<>> THEN BigMulSmall(a, 1, carry)
  ELSE LET v == Head(a) + Head(b) + carry
       IN  <<v % 10>> \o BigAdd(Tail(a), Tail(b), v \div 10)

\* a number of low zero bits of the even number b > 0: 16, 4 or 1
LowZeroBits(b) ==
  IF BigDivSmall(b, Pow2(16)).r = 0 THEN 16
  ELSE IF BigDivSmall(b, Pow2(4)).r = 0 THEN 4 ELSE 1

RECURSIVE FShr(_, _)
\* the float f with the mantissa shifted right by k zero bits, until it is odd
FShr(f, k) ==
  IF Head(f.m) % 2 = 1 THEN f
  ELSE FShr([m |-> BigDivSmall(f.m, Pow2(k)).q, e |-> f.e + k],
            LowZeroBits(BigDivSmall(f.m, Pow2(k)).q))

\* the float f with an odd mantissa (zero: no digits)
FOdd(f) ==
  IF BigNorm(f.m) = <<>> THEN [m |-> <<>>, e |-> 0]
  ELSE IF Head(f.m) % 2 = 1 THEN [m |-> BigNorm(f.m), e |-> f.e]
  ELSE FShr([m |-> BigNorm(f.m), e |-> f.e], LowZeroBits(BigNorm(f.m)))

\* float(i) for a natural number i
FInt(i) == FOdd([m |-> BigMulSmall(<<1>>, i, 0), e |-> 0])

\* f + g for floats that are not negative, in prec bits
FAdd(f, g, prec) ==
  LET e == IF f.e <= g.e THEN f.e ELSE g.e
  IN  FOdd(FRound(BigAdd(BigMulPow2(f.m, f.e - e), BigMulPow2(g.m, g.e - e), 0),
                  e, prec))

\* i / f for a natural number i and a float f > 0 whose odd mantissa is a
\* machine integer, in prec bits
IntDivF(i, f, prec) ==
  LET g == FOdd(f)
      q == FDiv(i, BigToInt(g.m), prec)
  IN  FOdd([m |-> q.m, e |-> q.e - g.e])

RECURSIVE Pow2Mod(_, _)
\* 2^k modulo d
Pow2Mod(k, d) == IF k = 0 THEN 1 % d ELSE (2 * Pow2Mod(k - 1, d)) % d

RECURSIVE Scale2(_, _)
\* the j with b <= a * 2^j < 2 * b, for a > 0
Scale2(a, b) ==
  IF a < b THEN 1 + Scale2(2 * a, b)
  ELSE IF a >= 2 * b THEN Scale2(a, 2 * b) - 1
  ELSE 0

\* int(i * (a / b)) in Python for natural numbers a, b below 2^14 and a
\* product below 2^16, in machine integers.  The two roundings move the product
\* by less than 1 / b, so a product i * a / b that is not an integer is
\* truncated to its floor.  When it is an integer n, the quotient a / b is
\* the double m / 2^k with a * 2^k = m0 * b + r; rounded up (or exact) the
\* product is at least n; rounded down it is n - i * r / (b * 2^k), which
\* rounds back to n exactly when that deficit is at most half the step
\* below n, and to the double below n, truncated to n - 1, otherwise.
IntMulDiv(i, a, b) ==
  LET n == (i * a) \div b
      k == 52 + Scale2(a, b)
      r == ((a % b) * Pow2Mod(k, b)) % b
      m0_odd == ((a % (2 * b)) * Pow2Mod(k, 2 * b)) % (2 * b) >= b
      down == 2 * r < b \/ (2 * r = b /\ ~m0_odd)
      L == IntBitLen(n)
      \* the half step below n is 2^(-t)
      t == IF n = Pow2(L - 1) THEN 55 - L ELSE 54 - L
      kept == IF k >= t THEN i * r <= b * Pow2(k - t)
              ELSE i * r * Pow2(t - k) <= b
  IN  IF (i * a) % b # 0 \/ n = 0 \/ a % b = 0 \/ r = 0 \/ ~down \/ kept
      THEN n ELSE n - 1

(***************************************************************************)
(* The environment: the files on disk, the preview canvas, text extents.   *)
(***************************************************************************)
NoItem == "none"

\* the image files the user can add: a small photo with an EXIF date and a
\* large one without
Files == {"in/a.jpg", "in/b.jpg"}

\* Image.open(path).size
ImageSize(f) ==
  CASE f = "in/a.jpg" -> <<60, 40>>
    [] f = "in/b.jpg" -> <<400, 200>>
    [] OTHER -> <<100, 100>>

\* ImageItem.exif_date; "" stands for None
ExifDate(f) == IF f = "in/a.jpg" THEN "2024-01-15" ELSE ""

\* watermark image paths: unset, a file that exists, a file that does not,
\* a file that exists and is not an image
WatermarkPaths == {"", "wm.png", "gone.png", "bad.png"}
PathExists(path) == path \in {"wm.png", "bad.png"}
\* Image.open(watermark_path) returns an image
Readable(path) == path = "wm.png"
\* Image.open(watermark_path).size
WatermarkImageSize(path) == <<400, 200>>

\* preview_canvas.winfo_width(), winfo_height() of the mapped window
CanvasSize == <<80, 60>>

\* draw.textbbox((0, 0), text, font): half an em a character, one em high
textbbox(text, font_size) == <<(Len(text) * font_size) \div 2, font_size>>

\* the rotations of the model: multiples of a quarter turn, for which
\* Image.rotate(angle, expand=True) is exact
Rotations == {0, 90, 180, -90}
\* the size of Image.rotate(angle, expand=True) of an image of size s
rotate_size(s, angle) == IF angle \in {90, -90} THEN <<s[2], s[1]>> ELSE s

Max(a, b) == IF a >= b THEN a ELSE b

(***************************************************************************)
(* Pixels.  A pixel is [c, a]: the level of one colour channel and the     *)
(* alpha level, both 0 .. 255, computed as the imaging library does.       *)
(***************************************************************************)
\* one pixel of the picture of a file, converted to RGBA (a JPEG is opaque)
BasePixel(f) == [c |-> 100, a |-> 255]
\* one pixel of the watermark image, converted to RGBA
WatermarkPixel(path) == [c |-> 200, a |-> 255]

\* the library's rounded division by 255
DIV255(v) == (((v + 128) \div 256) + (v + 128)) \div 256
\* the library's BLEND(mask, in1, in2): in2 weighted by mask over in1
BLEND(mask, in1, in2) == DIV255(in1 * (255 - mask) + in2 * mask)

\* Image.paste(src, box, src) and Image.paste(src, mask=alpha of src): every
\* band, alpha included, is blended with the alpha of src as the mask
paste_mask(dst, src) ==
  [c |-> BLEND(src.a, dst.c, src.c), a |-> BLEND(src.a, dst.a, src.a)]

\* Image.alpha_composite(dst, src)
alpha_composite(dst, src) ==
  LET blend == dst.a * (255 - src.a)
      outa255 == src.a * 255 + blend
      coef1 == (src.a * 255 * 255 * 128) \div outa255
      coef2 == 255 * 128 - coef1
      tmp == src.c * coef1 + dst.c * coef2 + 128 * 128
  IN  IF src.a = 0 THEN dst
      ELSE [c |-> (((tmp \div 256) + tmp) \div 256) \div 128,
            a |-> (((outa255 + 128) \div 256) + (outa255 + 128)) \div 256]

\* an enhancement that leaves the level as it is
enhance_nothing(level, opacity) == level

\* ImageEnhance.Brightness(alpha).enhance(opacity / 100) on one level: the
\* blend of black and the level, (UINT8)(0 + factor * level) with factor a
\* C float
enhance(level, opacity) ==
  LET scaled(factor) == FTrunc(FMul(level, FRound(factor.m, factor.e, 24), 24))
  IN  IF opacity = 0 THEN 0
      ELSE IF opacity = 100 THEN level
      ELSE scaled(FDiv(opacity, 100, 53))

\* the alpha band of the watermark after lines 735-739
watermark_alpha(a, image_opacity) ==
  IF image_opacity < 100 THEN enhance(a, image_opacity) ELSE a

\* ImageDraw.text on an RGBA image, under a fully covered glyph pixel: the
\* fill replaces the pixel, alpha included
draw_text(dst, fill) == fill

(***************************************************************************)
(* The watermark renderers.  An image is abstracted to its size, to one    *)
(* of its pixels, and, once rendered, to the watermark layer pasted on it: *)
(* [size, pixel, paste, layer_size, box], where pixel is that pixel if the *)
(* content of the watermark covers it and box is that pixel if only the    *)
(* background box of a text watermark covers it.  A call returns           *)
(* [status, message, image] with status "ok" (image, message), "none"      *)
(* ((None, message)) or "raise" (an exception).                            *)
(***************************************************************************)
NoImage == [size |-> <<0, 0>>]

\* the params dict of update_preview_image (lines 927-942) and of
\* process_images (lines 848-873), for the settings record s; the colour,
\* the quality and the file name prefix and suffix keep their defaults
Params(s, item) ==
  [watermark_type |-> s.watermark_type,
   font_size |-> s.font_size,
   watermark_text_source |-> s.watermark_text_source,
   custom_watermark_text |-> s.custom_watermark_text,
   image_watermark_path |-> s.image_watermark_path,
   image_scale |-> s.image_scale,
   text_opacity |-> s.text_opacity,
   image_opacity |-> s.image_opacity,
   output_format |-> s.output_format,
   resize_option |-> s.resize_option,
   resize_value |-> s.resize_value,
   position |-> IF ~s.manual_position THEN s.position ELSE "manual",
   rotation_angle |-> s.rotation_angle,
   image_item |-> item,
   manual_x |-> IF s.manual_position THEN s.watermark_x_offset ELSE RInt(0),
   manual_y |-> IF s.manual_position THEN s.watermark_y_offset ELSE RInt(0)]

\* a paste of the rotated layer at the resolved position itself
rotated_paste_unadjusted(xy, ts, rotated) == xy

\* where the rotated layer is pasted (lines 705-708)
rotated_paste(xy, ts, rotated) ==
  <<xy[1] - (rotated[1] - ts[1]) \div 2, xy[2] - (rotated[2] - ts[2]) \div 2>>

\* the rendering of a text on the image: unrotated (lines 712-724) the box
\* is composited and the text drawn on the image; rotated (lines 686-711)
\* both are drawn on a scratch layer, which is pasted with itself as mask
text_rendering(image, ts, xy, text_opacity, rotation_angle) ==
  LET max_dim == Max(ts[1], ts[2]) * 2
      rotated == rotate_size(<<max_dim, max_dim>>, rotation_angle)
      \* the colour is "white"
      final_color == [c |-> 255, a |-> IntMulDiv(255, text_opacity, 100)]
      box_fill == [c |-> 0, a |-> IntMulDiv(128, text_opacity, 100)]
  IN  IF rotation_angle # 0
      THEN [size |-> image.size,
            paste |-> rotated_paste(xy, ts, rotated),
            layer_size |-> rotated,
            box |-> paste_mask(image.pixel, box_fill),
            pixel |-> paste_mask(image.pixel, draw_text(box_fill, final_color))]
      ELSE [size |-> image.size,
            paste |-> xy,
            layer_size |-> ts,
            box |-> alpha_composite(image.pixel, box_fill),
            pixel |-> draw_text(alpha_composite(image.pixel, box_fill), final_color)]

\* a text renderer that draws whatever text it is given, the empty one too
apply_text_watermark_unchecked(image, params) ==
  LET watermark_text ==
        IF params.watermark_text_source = "EXIF Date"
        THEN ExifDate(params.image_item) ELSE params.custom_watermark_text
      ts == textbbox(watermark_text, params.font_size)
      xy == get_position_coordinates(image.size, ts, params.position,
                                     params.manual_x, params.manual_y)
  IN  [status |-> "ok", message |-> "ok",
       image |-> text_rendering(image, ts, xy, params.text_opacity, 0)]

\* WatermarkGUI.apply_text_watermark
apply_text_watermark(image, params) ==
  LET exif_date == ExifDate(params.image_item)
      no_text ==
        IF params.watermark_text_source = "EXIF Date"
        THEN exif_date = "" ELSE params.custom_watermark_text = ""
      watermark_text ==
        IF params.watermark_text_source = "EXIF Date"
        THEN exif_date ELSE params.custom_watermark_text
      ts == textbbox(watermark_text, params.font_size)
      xy == get_position_coordinates(image.size, ts, params.position,
                                     params.manual_x, params.manual_y)
  IN  IF no_text
      THEN [status |-> "none",
            message |-> IF params.watermark_text_source = "EXIF Date"
                        THEN "no EXIF date" ELSE "custom text is empty",
            image |-> NoImage]
      ELSE [status |-> "ok", message |-> "ok",
            image |-> text_rendering(image, ts, xy, params.text_opacity,
                                     params.rotation_angle)]

\* the size the watermark image is resized to (lines 741-748)
watermark_target_size(base_width, scale_percent, wsize) ==
  LET with_height(target_width) ==
        <<target_width, IntMulDiv(target_width, wsize[2], wsize[1])>>
  IN  with_height(IntMulDiv(base_width, scale_percent, 100))

\* the pixel of the image under a pixel of the watermark (lines 735-739 and
\* 760-765): the watermark is pasted on a transparent layer with itself as
\* mask, and the layer composited on the image
image_rendering(base, watermark, image_opacity) ==
  LET faded == [watermark EXCEPT !.a = watermark_alpha(@, image_opacity)]
      overlay == paste_mask([c |-> 0, a |-> 0], faded)
  IN  alpha_composite(base, overlay)

\* an image renderer that does not look at the path before it opens it
apply_image_watermark_unchecked(image, params) ==
  LET target == watermark_target_size(image.size[1], params.image_scale, <<400, 200>>)
      rotated == rotate_size(target, params.rotation_angle)
  IN  [status |-> "ok", message |-> "ok",
       image |-> [size |-> image.size,
                  paste |-> get_position_coordinates(image.size, rotated,
                              params.position, params.manual_x, params.manual_y),
                  layer_size |-> rotated,
                  pixel |-> image_rendering(image.pixel, [c |-> 200, a |-> 255],
                                            params.image_opacity)]]

\* WatermarkGUI.apply_image_watermark
apply_image_watermark(image, params) ==
  LET watermark_path == params.image_watermark_path
      \* lines 750-765, for the size of the watermark after the rotation
      pasted(rotated) ==
        [status |-> "ok", message |-> "ok",
         image |-> [size |-> image.size,
                    paste |-> get_position_coordinates(image.size, rotated,
                                params.position, params.manual_x, params.manual_y),
                    layer_size |-> rotated,
                    pixel |-> image_rendering(image.pixel,
                                WatermarkPixel(watermark_path),
                                params.image_opacity)]]
      \* lines 748-765, for the size the watermark is resized to
      resized(target) ==
        IF target[1] <= 0 \/ target[2] <= 0
        THEN [status |-> "raise", message |-> "height and width must be > 0",
              image |-> NoImage]
        ELSE pasted(rotate_size(target, params.rotation_angle))
  IN  IF watermark_path = "" \/ ~PathExists(watermark_path)
      THEN [status |-> "none", message |-> "invalid watermark path", image |-> NoImage]
      ELSE IF ~Readable(watermark_path)
      THEN [status |-> "raise", message |-> "cannot identify image file",
            image |-> NoImage]
      ELSE resized(watermark_target_size(image.size[1], params.image_scale,
                                         WatermarkImageSize(watermark_path)))

(***************************************************************************)
(* The preview.                                                            *)
(***************************************************************************)
\* auto_scale = min(canvas_width / w, canvas_height / h, 1.0)
auto_scale(canvas, size) ==
  RMin(RMin(Rat(canvas[1], size[1]), Rat(canvas[2], size[2])), RInt(1))

\* final_scale = auto_scale * self.preview_scale, as [auto, zoom]
final_scale(canvas, size, zoom) == [auto |-> auto_scale(canvas, size), zoom |-> zoom]

\* final_scale as a rational (for a zoom of few factors)
FinalScaleRat(fs) == RMul(fs.auto, ZoomRat(fs.zoom))

\* final_scale != 1.0
FinalScaleIsOne(fs) ==
  LET x == BigMulSmall(fs.zoom.n, fs.auto[1], 0)
  IN  LowZero(x, fs.zoom.p) /\ BigToInt(DropLow(x, fs.zoom.p)) = fs.auto[2]

\* int(v * final_scale)
ScaleInt(v, fs) ==
  BigToInt(DropLow(BigMulSmall(fs.zoom.n, v * fs.auto[1], 0), fs.zoom.p)) \div fs.auto[2]

\* the size the preview is drawn at (lines 959-970)
preview_size(canvas, size, zoom) ==
  LET fs == final_scale(canvas, size, zoom)
  IN  IF canvas[1] > 1 /\ canvas[2] > 1 /\ ~FinalScaleIsOne(fs)
      THEN <<ScaleInt(size[1], fs), ScaleInt(size[2], fs)>>
      ELSE size

\* WatermarkGUI.update_preview_image: the preview [image, status] after the
\* call, from the preview pv before it
update_preview_image(pv, item, s, zoom) ==
  IF item = NoItem
  THEN [pv EXCEPT !.status = "none"]
  ELSE
    LET img == [size |-> ImageSize(item), pixel |-> BasePixel(item)]
        params == Params(s, item)
        fs == final_scale(CanvasSize, img.size, zoom)
        \* the preview of the rendering r, resized to new_size
        shown(r, new_size) ==
          IF r.status # "ok" \/ new_size[1] <= 0 \/ new_size[2] <= 0
          THEN [pv EXCEPT !.status = "error"]
          ELSE [image |-> [size |-> new_size, paste |-> r.image.paste,
                           layer_size |-> r.image.layer_size,
                           pixel |-> r.image.pixel,
                           scale |-> fs],
                status |-> "ok"]
    IN  shown(IF params.watermark_type = "Text"
              THEN apply_text_watermark(img, params)
              ELSE apply_image_watermark(img, params),
              preview_size(CanvasSize, img.size, zoom))

(***************************************************************************)
(* The pointer mapping: where the preview draws a source point, and the    *)
(* source point a pointer-down is converted to.                            *)
(***************************************************************************)
\* k * final_scale <= m and k * final_scale >= m, for naturals k and m
ScaleTimesLe(k, fs, m) ==
  BigLe(BigNorm(BigMulSmall(fs.zoom.n, k * fs.auto[1], 0)),
        BigNorm(BigMulSmall(TenPow(fs.zoom.p), m * fs.auto[2], 0)))
ScaleTimesGe(k, fs, m) ==
  BigLe(BigNorm(BigMulSmall(TenPow(fs.zoom.p), m * fs.auto[2], 0)),
        BigNorm(BigMulSmall(fs.zoom.n, k * fs.auto[1], 0)))

\* a conversion that multiplies by the scale
unscale_multiplying(relative, fs, limit) == ScaleInt(relative, fs)

\* int(relative / final_scale) for 0 <= relative <= limit * final_scale
\* (lines 1043-1044), for a zoom of any number of factors
unscale(relative, fs, limit) ==
  CHOOSE q \in 0 .. limit :
    ScaleTimesLe(q, fs, relative) /\ ~ScaleTimesLe(q + 1, fs, relative)

\* create_image(canvas_width // 2, canvas_height // 2, anchor="center")
\* (lines 977-982): the canvas point of the top-left pixel of a preview of
\* size psize
image_origin(canvas, psize) ==
  <<canvas[1] \div 2 - psize[1] \div 2, canvas[2] \div 2 - psize[2] \div 2>>

\* the canvas point at which the preview shows the source point p: the
\* resize (line 970) takes column x of size[1] columns to column
\* floor(x * psize[1] / size[1]) of psize[1]
toCanvas(p, canvas, size, zoom) ==
  LET psize == preview_size(canvas, size, zoom)
      o == image_origin(canvas, psize)
  IN  <<o[1] + (p[1] * psize[1]) \div size[1],
        o[2] + (p[2] * psize[2]) \div size[2]>>

\* the conversion of on_preview_click (lines 1014-1044) of the canvas point
\* c over a preview of size psize: [inside, point]
toSource(c, canvas, size, zoom, psize) ==
  LET image_start_x == (canvas[1] - psize[1]) \div 2
      image_start_y == (canvas[2] - psize[2]) \div 2
      relative_x == c[1] - image_start_x
      relative_y == c[2] - image_start_y
      fs == final_scale(canvas, size, zoom)
  IN  IF /\ 0 <= relative_x /\ relative_x <= psize[1]
         /\ 0 <= relative_y /\ relative_y <= psize[2]
         /\ canvas[1] > 1 /\ canvas[2] > 1
      THEN [inside |-> TRUE,
            point |-> <<unscale(relative_x, fs, size[1]),
                        unscale(relative_y, fs, size[2])>>]
      ELSE [inside |-> FALSE, point |-> <<0, 0>>]

(***************************************************************************)
(* State.                                                                  *)
(***************************************************************************)
VARIABLES
  \* WatermarkGUI: the image list and the preview
  image_items,            \* self.image_items, the file paths of the items
  current_preview_item,   \* self.current_preview_item (NoItem: None)
  preview_image,          \* self.preview_image (NoImage: None)
  preview_status,         \* the preview status label: "none", "ok", "error"
  preview_scale,          \* self.preview_scale, the user zoom
  \* WatermarkGUI: placement
  position,               \* self.position
  manual_position,        \* self.manual_position
  watermark_x_offset,     \* self.watermark_x_offset (a float)
  watermark_y_offset,     \* self.watermark_y_offset (a float)
  is_dragging,            \* self.is_dragging
  drag_start_x,           \* self.drag_start_x
  drag_start_y,           \* self.drag_start_y
  \* WatermarkGUI: the settings that decide what is rendered
  watermark_type,
  watermark_text_source,
  custom_watermark_text,
  image_watermark_path,
  image_scale,
  rotation_angle,
  font_size,
  text_opacity,
  image_opacity,
  output_dir,
  output_format,
  resize_option,
  resize_value,
  \* the batch: the worker threads started by process_images, and the files
  \* written to disk
  workers,
  out_files,
  \* the widgets the batch writes to
  widgets,
  \* history: whether the last pointer-down was inside the rendered image,
  \* and the number of pointer-moves so far
  press_inside,
  n_moves,
  \* the resolvers called on their own
  g_args,     \* the arguments of one call of the resolvers
  g_result    \* what the GUI and the command line resolver returned

listVars == <<image_items, current_preview_item>>
previewVars == <<preview_image, preview_status, preview_scale>>
placeVars == <<position, manual_position, watermark_x_offset, watermark_y_offset>>
dragVars == <<is_dragging, drag_start_x, drag_start_y>>
settingVars == <<watermark_type, watermark_text_source, custom_watermark_text,
                 image_watermark_path, image_scale, rotation_angle, font_size,
                 text_opacity, image_opacity,
                 output_dir, output_format, resize_option, resize_value>>
batchVars == <<workers, out_files, widgets>>
histVars == <<press_inside, n_moves>>
geomVars == <<g_args, g_result>>
guiVars == <<listVars, previewVars, placeVars, dragVars, settingVars>>
userVars == <<guiVars, batchVars>>
vars == <<guiVars, batchVars, histVars, geomVars>>

(***************************************************************************)
(* The settings as one record, and the template documents.                 *)
(***************************************************************************)
\* the settings in the state
S ==
  [watermark_type |-> watermark_type,
   font_size |-> font_size,
   watermark_text_source |-> watermark_text_source,
   custom_watermark_text |-> custom_watermark_text,
   image_watermark_path |-> image_watermark_path,
   image_scale |-> image_scale,
   position |-> position,
   rotation_angle |-> rotation_angle,
   manual_position |-> manual_position,
   watermark_x_offset |-> watermark_x_offset,
   watermark_y_offset |-> watermark_y_offset,
   text_opacity |-> text_opacity,
   image_opacity |-> image_opacity,
   output_dir |-> output_dir,
   output_format |-> output_format,
   resize_option |-> resize_option,
   resize_value |-> resize_value]

\* the settings of the next state are those of the record s
SetSettings(s) ==
  /\ watermark_type' = s.watermark_type
  /\ font_size' = s.font_size
  /\ watermark_text_source' = s.watermark_text_source
  /\ custom_watermark_text' = s.custom_watermark_text
  /\ image_watermark_path' = s.image_watermark_path
  /\ image_scale' = s.image_scale
  /\ position' = s.position
  /\ rotation_angle' = s.rotation_angle
  /\ manual_position' = s.manual_position
  /\ watermark_x_offset' = s.watermark_x_offset
  /\ watermark_y_offset' = s.watermark_y_offset
  /\ text_opacity' = s.text_opacity
  /\ image_opacity' = s.image_opacity
  /\ output_dir' = s.output_dir
  /\ output_format' = s.output_format
  /\ resize_option' = s.resize_option
  /\ resize_value' = s.resize_value

\* the preview in the state, and the preview of the next state
Preview == [image |-> preview_image, status |-> preview_status]
SetPreview(pv) == preview_image' = pv.image /\ preview_status' = pv.status

\* WatermarkGUI.__init__ (lines 89-128): the values before any document is
\* loaded; they are also the defaults of settings.get(key, default)
Defaults ==
  [watermark_type |-> "Text",
   font_size |-> 36,
   watermark_text_source |-> "EXIF Date",
   custom_watermark_text |-> "custom",
   image_watermark_path |-> "",
   image_scale |-> 20,
   position |-> "bottom-right",
   rotation_angle |-> 0,
   manual_position |-> FALSE,
   watermark_x_offset |-> RInt(0),
   watermark_y_offset |-> RInt(0),
   text_opacity |-> 100,
   image_opacity |-> 100,
   output_dir |-> "",
   output_format |-> "JPEG",
   resize_option |-> "none",
   resize_value |-> 100]

\* settings.get(key, default) of a loaded document
DocGet(doc, key) == IF key \in DOMAIN doc THEN doc[key] ELSE Defaults[key]

\* a document saved in manual mode, after a pointer-down and a drag at zoom 1.0
DocManual ==
  [watermark_type |-> "Text",
   font_size |-> 36,
   watermark_text_source |-> "Custom Text",
   custom_watermark_text |-> "hi",
   image_watermark_path |-> "",
   image_scale |-> 20,
   position |-> "center",
   rotation_angle |-> 90,
   manual_position |-> TRUE,
   watermark_x_offset |-> <<25, 1>>,
   watermark_y_offset |-> <<-3, 1>>,
   output_dir |-> "out"]

\* a document of a version that did not save the manual position
DocOld ==
  [watermark_type |-> "Image",
   image_watermark_path |-> "wm.png",
   image_scale |-> 20,
   position |-> "top-left",
   rotation_angle |-> 0,
   output_dir |-> "out"]

\* a document saved with the custom text source and an empty text
DocEmptyText ==
  [watermark_type |-> "Text",
   watermark_text_source |-> "Custom Text",
   custom_watermark_text |-> "",
   output_dir |-> "out"]

\* templates/template_*.json
TemplateDocs == {DocManual, DocOld}
\* templates/last_settings.json, when it exists
LastSettingsDocs == {DocManual}

\* the variables whose write triggers update_preview_image (lines
\* 1117-1127), in the order apply_template and load_last_settings set them
\* up to position (which has no trace)
TracedKeys ==
  <<"watermark_type", "font_size", "text_opacity", "watermark_text_source",
    "custom_watermark_text", "image_watermark_path", "image_opacity", "image_scale">>

RECURSIVE SetTraced(_, _, _)
\* var.set(settings.get(key, default)) for the keys in turn: the settings
\* after them
SetTraced(keys, doc, s) ==
  IF keys = <<>> THEN s
  ELSE SetTraced(Tail(keys), doc, [s EXCEPT ![Head(keys)] = DocGet(doc, Head(keys))])

RECURSIVE TracedPreview(_, _, _, _, _, _)
\* the traced update_preview_image calls of those writes: the preview
\* after them
TracedPreview(keys, doc, s, pv, item, zoom) ==
  IF keys = <<>> THEN pv
  ELSE LET s1 == [s EXCEPT ![Head(keys)] = DocGet(doc, Head(keys))]
       IN  TracedPreview(Tail(keys), doc, s1, update_preview_image(pv, item, s1, zoom),
                         item, zoom)

\* the settings of doc that the body shared by apply_template (lines
\* 1232-1255) and load_last_settings (lines 1153-1176) writes, up to
\* rotation_angle
LoadedRendering(doc, s) ==
  [SetTraced(TracedKeys, doc, s) EXCEPT
     !.position = DocGet(doc, "position"),
     !.rotation_angle = DocGet(doc, "rotation_angle")]

\* a load that leaves the manual position as it was
LoadSettings_keeping_manual(doc, s) ==
  [LoadedRendering(doc, s) EXCEPT
     !.output_dir = DocGet(doc, "output_dir"),
     !.output_format = DocGet(doc, "output_format"),
     !.resize_option = DocGet(doc, "resize_option"),
     !.resize_value = DocGet(doc, "resize_value")]

\* the settings after that body, the manual position restored (lines
\* 1257-1260)
LoadSettings(doc, s) ==
  [LoadedRendering(doc, s) EXCEPT
     !.manual_position = DocGet(doc, "manual_position"),
     !.watermark_x_offset = DocGet(doc, "watermark_x_offset"),
     !.watermark_y_offset = DocGet(doc, "watermark_y_offset"),
     !.output_dir = DocGet(doc, "output_dir"),
     !.output_format = DocGet(doc, "output_format"),
     !.resize_option = DocGet(doc, "resize_option"),
     !.resize_value = DocGet(doc, "resize_value")]

\* the preview after that body: each traced write renders, the last of
\* them rotation_angle, before the manual position is restored
LoadPreview(doc, s, pv, item, zoom) ==
  update_preview_image(TracedPreview(TracedKeys, doc, s, pv, item, zoom),
                       item, LoadedRendering(doc, s), zoom)

(***************************************************************************)
(* The state after construction: WatermarkGUI.__init__, which ends with    *)
(* load_last_settings.                                                     *)
(***************************************************************************)
\* the settings after __init__ when last_settings.json holds doc
InitSettings(doc) == LoadSettings(doc, Defaults)

GuiInitWith(s) ==
  /\ image_items = <<>>
  /\ current_preview_item = NoItem
  /\ preview_image = NoImage
  /\ preview_status = "none"
  /\ preview_scale = Zoom1
  /\ is_dragging = FALSE
  /\ drag_start_x = 0
  /\ drag_start_y = 0
  /\ watermark_type = s.watermark_type
  /\ font_size = s.font_size
  /\ watermark_text_source = s.watermark_text_source
  /\ custom_watermark_text = s.custom_watermark_text
  /\ image_watermark_path = s.image_watermark_path
  /\ image_scale = s.image_scale
  /\ position = s.position
  /\ rotation_angle = s.rotation_angle
  /\ manual_position = s.manual_position
  /\ watermark_x_offset = s.watermark_x_offset
  /\ watermark_y_offset = s.watermark_y_offset
  /\ text_opacity = s.text_opacity
  /\ image_opacity = s.image_opacity
  /\ output_dir = s.output_dir
  /\ output_format = s.output_format
  /\ resize_option = s.resize_option
  /\ resize_value = s.resize_value

\* no batch has been started, nothing has been written
\* the progress bar, the status label and the completion dialogs shown;
\* by_worker is the set of widget options that a worker thread has
\* configured itself
BatchInit ==
  /\ workers = <<>>
  /\ out_files = {}
  /\ widgets = [progress_maximum |-> 100, progress_value |-> 0,
                status_label |-> [kind |-> "ready"], dialogs |-> <<>>,
                by_worker |-> {}]

HistInit == press_inside = FALSE /\ n_moves = 0

\* no last_settings.json, or one of LastSettingsDocs
GuiInit ==
  \/ GuiInitWith(Defaults)
  \/ \E doc \in LastSettingsDocs : GuiInitWith(InitSettings(doc))

(***************************************************************************)
(* The handlers of the interactive surface.                                *)
(***************************************************************************)
\* `if self.current_preview_item: self.update_preview_image()`
Refresh(pv, item, s, zoom) ==
  IF item # NoItem THEN update_preview_image(pv, item, s, zoom) ELSE pv

\* path.exists() and path.suffix.lower() in self.supported_formats
IsImageFile(path) == path \in Files

RECURSIVE AddAll(_, _)
\* the loop of add_files (lines 483-495)
AddAll(items, file_paths) ==
  IF file_paths = <<>> THEN items
  ELSE LET path == Head(file_paths)
           present == \E i \in 1 .. Len(items) : items[i] = path
       IN  IF IsImageFile(path) /\ ~present
           THEN AddAll(Append(items, path), Tail(file_paths))
           ELSE AddAll(items, Tail(file_paths))

\* WatermarkGUI.add_files
add_files(file_paths) ==
  /\ UNCHANGED batchVars
  /\ image_items' = AddAll(image_items, file_paths)
  /\ UNCHANGED <<current_preview_item, previewVars, placeVars, dragVars, settingVars>>

\* WatermarkGUI.clear_list
clear_list ==
  /\ UNCHANGED batchVars
  /\ image_items' = <<>>
  /\ UNCHANGED <<current_preview_item, previewVars, placeVars, dragVars, settingVars>>

\* WatermarkGUI.select_image_for_preview; index counts from 1 here
select_image_for_preview(index) ==
  /\ UNCHANGED batchVars
  /\ index \in 1 .. Len(image_items)
  /\ LET s2 == [S EXCEPT !.manual_position = FALSE,
                         !.watermark_x_offset = RInt(0),
                         !.watermark_y_offset = RInt(0)]
     IN  /\ current_preview_item' = image_items[index]
         /\ preview_scale' = Zoom1
         /\ SetSettings(s2)
         /\ SetPreview(update_preview_image(Preview, image_items[index], s2, Zoom1))
  /\ UNCHANGED <<image_items, dragVars>>

\* WatermarkGUI.select_position (the nine-grid window)
select_position(p) ==
  /\ UNCHANGED batchVars
  /\ LET s2 == [S EXCEPT !.position = p, !.manual_position = FALSE]
     IN  /\ SetSettings(s2)
         /\ SetPreview(Refresh(Preview, current_preview_item, s2, preview_scale))
  /\ UNCHANGED <<listVars, preview_scale, dragVars>>

\* WatermarkGUI.on_position_changed, after the combobox has written p to
\* self.position
on_position_changed(p) ==
  /\ UNCHANGED batchVars
  /\ LET s2 == [S EXCEPT !.position = p, !.manual_position = FALSE,
                         !.watermark_x_offset = RInt(0),
                         !.watermark_y_offset = RInt(0)]
     IN  /\ SetSettings(s2)
         /\ SetPreview(Refresh(Preview, current_preview_item, s2, preview_scale))
  /\ UNCHANGED <<listVars, preview_scale, dragVars>>

\* the pointer at canvas point (x, y) is inside the rendered image (lines
\* 1015-1026)
InsideImage(x, y) ==
  LET img_width == preview_image.size[1]
      img_height == preview_image.size[2]
      image_start_x == (CanvasSize[1] - img_width) \div 2
      image_start_y == (CanvasSize[2] - img_height) \div 2
      relative_x == x - image_start_x
      relative_y == y - image_start_y
  IN  /\ 0 <= relative_x /\ relative_x <= img_width
      /\ 0 <= relative_y /\ relative_y <= img_height

\* WatermarkGUI.on_preview_click
on_preview_click(x, y) ==
  IF current_preview_item = NoItem
  THEN UNCHANGED userVars
  ELSE
    /\ is_dragging' = TRUE
    /\ drag_start_x' = x
    /\ drag_start_y' = y
    /\ UNCHANGED <<listVars, preview_scale, batchVars>>
    /\ IF /\ preview_image # NoImage
          /\ InsideImage(x, y)
          /\ CanvasSize[1] > 1 /\ CanvasSize[2] > 1
       THEN
         LET relative_x == x - (CanvasSize[1] - preview_image.size[1]) \div 2
             relative_y == y - (CanvasSize[2] - preview_image.size[2]) \div 2
             fs == FinalScaleRat(final_scale(CanvasSize,
                     ImageSize(current_preview_item), preview_scale))
             orig_x == int(RDiv(RInt(relative_x), fs))
             orig_y == int(RDiv(RInt(relative_y), fs))
             s2 == [S EXCEPT !.watermark_x_offset = RInt(orig_x),
                             !.watermark_y_offset = RInt(orig_y),
                             !.manual_position = TRUE]
         IN  /\ SetSettings(s2)
             /\ SetPreview(update_preview_image(Preview, current_preview_item,
                                                s2, preview_scale))
       ELSE UNCHANGED <<preview_image, preview_status, placeVars, settingVars>>

\* WatermarkGUI.on_preview_release
on_preview_release ==
  /\ UNCHANGED batchVars
  /\ is_dragging' = FALSE
  /\ UNCHANGED <<listVars, previewVars, placeVars, settingVars,
                 drag_start_x, drag_start_y>>

\* WatermarkGUI.on_preview_drag
on_preview_drag(x, y) ==
  IF is_dragging /\ current_preview_item # NoItem
  THEN
    LET dx == x - drag_start_x
        dy == y - drag_start_y
        fs == FinalScaleRat(final_scale(CanvasSize,
                ImageSize(current_preview_item), preview_scale))
        s2 == IF CanvasSize[1] > 1 /\ CanvasSize[2] > 1
              THEN [S EXCEPT !.watermark_x_offset = RAdd(@, RDiv(RInt(dx), fs)),
                             !.watermark_y_offset = RAdd(@, RDiv(RInt(dy), fs)),
                             !.manual_position = TRUE]
              ELSE S
    IN  /\ SetSettings(s2)
        /\ drag_start_x' = x
        /\ drag_start_y' = y
        /\ SetPreview(update_preview_image(Preview, current_preview_item,
                                           s2, preview_scale))
        /\ UNCHANGED <<listVars, preview_scale, is_dragging, batchVars>>
  ELSE UNCHANGED userVars

\* WatermarkGUI.reset_preview (double click on the preview)
reset_preview ==
  /\ UNCHANGED batchVars
  /\ LET s2 == [S EXCEPT !.watermark_x_offset = RInt(0),
                         !.watermark_y_offset = RInt(0),
                         !.manual_position = FALSE]
     IN  /\ SetSettings(s2)
         /\ SetPreview(Refresh(Preview, current_preview_item, s2, preview_scale))
  /\ UNCHANGED <<listVars, preview_scale, dragVars>>

\* on_mouse_wheel without the range check
on_mouse_wheel_unclamped(delta) ==
  LET new_scale == ZoomMul(preview_scale, IF delta > 0 THEN 11 ELSE 9)
  IN  /\ preview_scale' = new_scale
      /\ SetPreview(update_preview_image(Preview, current_preview_item, S, new_scale))
      /\ UNCHANGED <<listVars, placeVars, dragVars, settingVars, batchVars>>

\* on_mouse_wheel that also leaves manual mode (as select_image_for_preview
\* does when it resets the zoom)
on_mouse_wheel_resetting(delta) ==
  LET new_scale == ZoomMul(preview_scale, IF delta > 0 THEN 11 ELSE 9)
      s2 == [S EXCEPT !.manual_position = FALSE]
  IN  IF CanvasSize[2] > 0 /\ ZoomGeTenth(new_scale) /\ ZoomLeTen(new_scale)
      THEN /\ preview_scale' = new_scale
           /\ SetSettings(s2)
           /\ SetPreview(update_preview_image(Preview, current_preview_item, s2, new_scale))
           /\ UNCHANGED <<listVars, dragVars, batchVars>>
      ELSE UNCHANGED userVars

\* WatermarkGUI.on_mouse_wheel
on_mouse_wheel(delta) ==
  LET scale_factor == IF delta > 0 THEN 11 ELSE 9
      new_scale == ZoomMul(preview_scale, scale_factor)
  IN  IF CanvasSize[2] > 0 /\ ZoomGeTenth(new_scale) /\ ZoomLeTen(new_scale)
      THEN /\ preview_scale' = new_scale
           /\ SetPreview(update_preview_image(Preview, current_preview_item, S, new_scale))
           /\ UNCHANGED <<listVars, placeVars, dragVars, settingVars, batchVars>>
      ELSE UNCHANGED userVars

\* WatermarkGUI.apply_template
apply_template(doc) ==
  /\ UNCHANGED <<listVars, preview_scale, dragVars, batchVars>>
  /\ SetSettings(LoadSettings(doc, S))
  /\ SetPreview(Refresh(LoadPreview(doc, S, Preview, current_preview_item, preview_scale),
                        current_preview_item, LoadSettings(doc, S), preview_scale))

(***************************************************************************)
(* The batch: process_images starts a worker thread, which walks the image *)
(* list and calls process_single_image on each item.                       *)
(***************************************************************************)
\* Path.stem and Path.parent of the files
Stem(f) == CASE f = "in/a.jpg" -> "a" [] f = "in/b.jpg" -> "b" [] OTHER -> "x"
Parent(f) == "in"
\* Path.name
Name(f) == Stem(f) \o ".jpg"

\* the resize options: '不缩放', '按宽度', '按高度', '按百分比' appear as
\* "none", "width", "height", "percent"; any other string is unrecognised
ResizeOptions == {"none", "width", "height", "percent"}

\* a resize that leaves the picture as it is
resize_target_skipped(size, option, value) == size

\* the size the picture is resized to (lines 777-789), for a natural
\* number as resize_value
resize_target(size, option, value) ==
  LET w == size[1]
      h == size[2]
  IN  CASE option = "width" ->
             <<value, IntMulDiv(h, value, w)>>
        [] option = "height" ->
             <<IntMulDiv(w, value, h), value>>
        [] option = "percent" ->
             <<(w * value) \div 100, (h * value) \div 100>>
        [] OTHER -> <<w, h>>

\* '.jpg' if params["output_format"] == 'JPEG' else '.png' (line 807)
output_ext(format) == IF format = "JPEG" THEN ".jpg" ELSE ".png"

\* output_dir / f"{prefix}{stem}{suffix}{output_ext}" (lines 807-809)
OutputPath(dir, f, ext) == dir \o "/" \o Stem(f) \o "_watermarked" \o ext

\* a save that writes the image as it is, whatever the format
encode_as_is(pixel, format) == pixel

\* the pixel that is saved (lines 811-820): a JPEG is the image pasted on
\* opaque white with its alpha as mask, and has no alpha band (a appears as
\* 255); a PNG is the image
encode(pixel, format) ==
  IF format = "JPEG"
  THEN [c |-> BLEND(pixel.a, 255, pixel.c), a |-> 255]
  ELSE pixel

\* the rendered image as it is saved
encode_image(image, format) ==
  IF "box" \in DOMAIN image
  THEN [image EXCEPT !.pixel = encode(@, format),
                     !.box = encode(@, format)]
  ELSE [image EXCEPT !.pixel = encode(@, format)]

\* a single-image step that writes the output file before it renders, and
\* then fails
process_single_image_writing_first(image_item, dir, params) ==
  [success |-> FALSE, message |-> "invalid watermark path",
   saved |-> {[path |-> OutputPath(dir, image_item, output_ext(params.output_format)),
               format |-> IF params.output_format = "JPEG" THEN "JPEG" ELSE "PNG",
               image |-> NoImage]}]

\* WatermarkGUI.process_single_image: (success, message) and the file it
\* saved, if any
process_single_image(image_item, dir, params) ==
  LET size == ImageSize(image_item)
      p == [params EXCEPT !.image_item = image_item]
      \* lines 803-822, for what the renderer returned
      saving(r) ==
        IF r.status = "raise"
        THEN [success |-> FALSE, message |-> r.message, saved |-> {}]
        ELSE IF r.status = "none"
        THEN [success |-> FALSE, message |-> r.message, saved |-> {}]
        ELSE [success |-> TRUE, message |-> "ok",
              saved |-> {[path |-> OutputPath(dir, image_item,
                                              output_ext(params.output_format)),
                          format |-> IF params.output_format = "JPEG"
                                     THEN "JPEG" ELSE "PNG",
                          image |-> encode_image(r.image, params.output_format)]}]
      \* lines 790-801, for the size the picture is resized to
      resized(new_size) ==
        IF params.resize_option # "none" /\ (new_size[1] <= 0 \/ new_size[2] <= 0)
        THEN [success |-> FALSE, message |-> "height and width must be > 0",
              saved |-> {}]
        ELSE saving(IF p.watermark_type = "Text"
                    THEN apply_text_watermark(
                           [size |-> new_size, pixel |-> BasePixel(image_item)], p)
                    ELSE apply_image_watermark(
                           [size |-> new_size, pixel |-> BasePixel(image_item)], p))
  IN  resized(IF params.resize_option # "none"
              THEN resize_target(size, params.resize_option, params.resize_value)
              ELSE size)

\* image.save(output_path): the file replaces one of the same path
Save(files, saved) ==
  {f \in files : \A n \in saved : n.path # f.path} \cup saved

\* WatermarkGUI.select_output_dir, the dialog returning directory
select_output_dir(directory) ==
  /\ output_dir' = IF directory # "" THEN directory ELSE output_dir
  /\ UNCHANGED <<listVars, previewVars, placeVars, dragVars, batchVars,
                 watermark_type, watermark_text_source, custom_watermark_text,
                 image_watermark_path, image_scale, rotation_angle, font_size,
                 text_opacity, image_opacity,
                 output_format, resize_option, resize_value>>

\* a 'start processing' that starts the batch whatever the user answers
process_images_unconfirmed(answer) ==
  /\ UNCHANGED guiVars
  /\ UNCHANGED <<out_files, widgets>>
  /\ IF image_items = <<>> \/ output_dir = ""
     THEN UNCHANGED workers
     ELSE workers' = Append(workers,
            [params |-> Params(S, NoItem), output_dir |-> output_dir,
             pc |-> "start", total_count |-> 0, k |-> 0, item |-> NoItem,
             success_count |-> 0, log |-> <<>>, scheduled |-> <<>>,
             list_at_start |-> image_items, done |-> FALSE])

\* WatermarkGUI.process_images; answer is what the user says when asked
\* whether to write into the folder of the originals
process_images(answer) ==
  LET source_dirs == {Parent(image_items[i]) : i \in 1 .. Len(image_items)}
  IN  /\ UNCHANGED guiVars
      /\ UNCHANGED <<out_files, widgets>>
      /\ IF \/ image_items = <<>>
            \/ output_dir = ""
            \/ (output_dir \in source_dirs /\ ~answer)
         THEN UNCHANGED workers
         ELSE workers' = Append(workers,
                [params |-> Params(S, NoItem),
                 output_dir |-> output_dir,
                 pc |-> "start",
                 total_count |-> 0,
                 k |-> 0,
                 item |-> NoItem,
                 success_count |-> 0,
                 log |-> <<>>,
                 scheduled |-> <<>>,
                 list_at_start |-> image_items,
                 done |-> FALSE])

\* the first statements of process_thread (lines 876-878) in worker n: the
\* length of the list is read and the maximum of the progress bar set
process_thread_start(n) ==
  /\ n \in 1 .. Len(workers)
  /\ workers[n].pc = "start"
  /\ UNCHANGED <<guiVars, out_files>>
  /\ workers' = [workers EXCEPT ![n].pc = "loop",
                                ![n].total_count = Len(image_items)]
  /\ widgets' = [widgets EXCEPT !.progress_maximum = Len(image_items),
                                !.by_worker = @ \cup {"progress.maximum"}]

\* one round of the loop of process_thread (lines 880-890) in worker n: the
\* list iterator yields the next item of the live list, or the loop ends
\* (lines 892-897); scheduled are the callbacks the worker has passed to
\* root.after
process_thread_step(n) ==
  /\ n \in 1 .. Len(workers)
  /\ workers[n].pc = "loop"
  /\ UNCHANGED <<guiVars, widgets>>
  /\ LET w == workers[n]
     IN  IF w.k < Len(image_items)
         THEN \E item \in {image_items[w.k + 1]} :
              \E r \in {process_single_image(item, w.output_dir, w.params)} :
                  /\ workers' = [workers EXCEPT ![n] =
                       [w EXCEPT !.k = @ + 1,
                                 !.item = item,
                                 !.success_count = IF r.success THEN @ + 1 ELSE @,
                                 !.log = Append(@, [item |-> item,
                                                    success |-> r.success,
                                                    message |-> r.message]),
                                 !.scheduled = @ \o
                                    <<[kind |-> "status", i |-> w.k],
                                      [kind |-> "progress", v |-> w.k + 1]>>]]
                  /\ out_files' = Save(out_files, r.saved)
         ELSE /\ workers' = [workers EXCEPT ![n] =
                   [w EXCEPT !.done = TRUE,
                             !.pc = "done",
                             !.scheduled = @ \o <<[kind |-> "completed"],
                                                  [kind |-> "showinfo"]>>]]
              /\ UNCHANGED out_files

\* the main loop runs the oldest callback that worker n has passed to
\* root.after: of the status callback (line 881) i was bound when the
\* lambda was made, item and total_count are read from the worker's frame
\* when it runs
run_after(n) ==
  /\ n \in 1 .. Len(workers)
  /\ workers[n].scheduled # <<>>
  /\ UNCHANGED <<guiVars, out_files>>
  /\ workers' = [workers EXCEPT ![n].scheduled = Tail(@)]
  /\ LET w == workers[n]
         cb == Head(w.scheduled)
     IN  widgets' =
           CASE cb.kind = "status" ->
                  [widgets EXCEPT !.status_label =
                     [kind |-> "processing", n |-> n, i |-> cb.i + 1,
                      total |-> w.total_count, name |-> Name(w.item)]]
             [] cb.kind = "progress" ->
                  [widgets EXCEPT !.progress_value = cb.v]
             [] cb.kind = "completed" ->
                  [widgets EXCEPT !.status_label =
                     [kind |-> "completed", n |-> n, success |-> w.success_count,
                      total |-> w.total_count]]
             [] OTHER ->
                  [widgets EXCEPT !.dialogs =
                     Append(@, [success |-> w.success_count, total |-> w.total_count])]

(***************************************************************************)
(* The command line tool (watermark.py), run with the default font size    *)
(* and position on the files of a directory.                               *)
(***************************************************************************)

\* PhotoWatermark.add_watermark: whether it succeeded and the file it saved
cli_add_watermark(image_path, size_of_font, position_name, dir) ==
  LET date_text == ExifDate(image_path)
      ts == textbbox(date_text, size_of_font)
      xy == cli_get_position_coordinates(ImageSize(image_path), ts, position_name)
  IN  IF date_text = ""
      THEN [ok |-> FALSE, saved |-> {}]
      ELSE [ok |-> TRUE,
            saved |-> {[path |-> dir \o "/" \o Name(image_path),
                        image |-> [size |-> ImageSize(image_path), paste |-> xy,
                                   layer_size |-> ts]]}]

RECURSIVE cli_process_loop(_, _, _)
\* the loop of PhotoWatermark.process_directory (lines 140-143)
cli_process_loop(image_files, success, saved) ==
  IF image_files = <<>>
  THEN [success |-> success, saved |-> saved]
  ELSE LET r == cli_add_watermark(Head(image_files), 36, "bottom-right", "in/in_watermark")
       IN  cli_process_loop(Tail(image_files),
                            IF r.ok THEN success + 1 ELSE success,
                            Save(saved, r.saved))

\* the image_files of process_directory (lines 131-134) for a directory
\* holding dir_files, all with the suffix .jpg: glob("*.jpg") and then
\* glob("*.JPG"), which finds the same files again where pathlib matches
\* without regard to case (Windows)
cli_image_files(dir_files, case_insensitive) ==
  dir_files \o (IF case_insensitive THEN dir_files ELSE <<>>)

\* PhotoWatermark.process_directory on a directory holding image_files:
\* the count it reports and the files it saved
cli_process_directory(image_files) ==
  IF image_files = <<>>
  THEN [success |-> 0, total |-> 0, saved |-> {}]
  ELSE LET r == cli_process_loop(image_files, 0, {})
       IN  [success |-> r.success, total |-> Len(image_files), saved |-> r.saved]

(***************************************************************************)
(* The interactive session: the user's operations in any order, ending     *)
(* with a batch that runs while the user waits.                            *)
(***************************************************************************)
\* the pointer-moves of one run
MaxMoves == 1
\* the wheel events since the zoom was last 1.0
MaxZoomSteps == 1

\* what the file dialog returns
PathLists == {<<"in/a.jpg", "in/b.jpg", "in/notes.txt">>}
\* the anchors the user picks
PickedAnchors == {"center"}
\* where the pointer is on the canvas: a point outside the rendered image
\* of both files at every zoom, and a point inside it
Points == {<<0, 0>>, <<30, 20>>}
\* event.delta of the wheel events
WheelDeltas == {120}

\* no batch has been started
Idle == workers = <<>>

Ghost == UNCHANGED <<press_inside, n_moves, geomVars>>

Next ==
  \/ \E paths \in PathLists : Idle /\ add_files(paths) /\ Ghost
  \/ Idle /\ clear_list /\ Ghost
  \/ \E i \in 1 .. Len(image_items) : Idle /\ select_image_for_preview(i) /\ Ghost
  \/ \E p \in PickedAnchors : Idle /\ on_position_changed(p) /\ Ghost
  \/ \E p \in PickedAnchors : Idle /\ select_position(p) /\ Ghost
  \/ \E pt \in Points :
       /\ Idle
       /\ on_preview_click(pt[1], pt[2])
       /\ press_inside' = /\ current_preview_item # NoItem
                          /\ preview_image # NoImage
                          /\ InsideImage(pt[1], pt[2])
       /\ UNCHANGED <<n_moves, geomVars>>
  \/ Idle /\ on_preview_release /\ Ghost
  \/ \E pt \in Points :
       /\ Idle
       /\ n_moves < MaxMoves
       /\ on_preview_drag(pt[1], pt[2])
       /\ n_moves' = n_moves + 1
       /\ UNCHANGED <<press_inside, geomVars>>
  \/ Idle /\ reset_preview /\ Ghost
  \/ \E delta \in WheelDeltas :
       /\ Idle
       /\ preview_scale.p < MaxZoomSteps
       /\ on_mouse_wheel(delta)
       /\ Ghost
  \/ \E doc \in TemplateDocs : Idle /\ apply_template(doc) /\ Ghost
  \/ Idle /\ process_images(TRUE) /\ Ghost
  \/ \E n \in 1 .. Len(workers) : process_thread_start(n) /\ Ghost
  \/ \E n \in 1 .. Len(workers) : process_thread_step(n) /\ Ghost

Init ==
  /\ GuiInit
  /\ BatchInit
  /\ HistInit
  /\ g_args = [position |-> "none"]
  /\ g_result = [done |-> FALSE]

Spec == Init /\ [][Next]_vars

(***************************************************************************)
(* Zooming: image selections and wheel events, long enough to reach both   *)
(* ends of the zoom range (1.1^25 > 10, 0.9^22 < 0.1).                     *)
(***************************************************************************)
\* the wheel events since the zoom was last 1.0
MaxWheel == 25

ZoomNext ==
  \/ \E paths \in PathLists : add_files(paths) /\ Ghost
  \/ \E i \in 1 .. Len(image_items) : select_image_for_preview(i) /\ Ghost
  \/ \E delta \in {120, -120} :
       /\ preview_scale.p < MaxWheel
       /\ on_mouse_wheel(delta)
       /\ Ghost

SpecZoom == Init /\ [][ZoomNext]_vars

(***************************************************************************)
(* The pointer mapping on its own: a source point is drawn and the canvas  *)
(* point it is drawn at is converted back.                                 *)
(***************************************************************************)
\* the wheel events in one direction behind a zoom
MaxZoomPower == 24

RECURSIVE ZoomPow(_, _)
\* the zoom after k wheel events up (f = 11) or down (f = 9)
ZoomPow(f, k) == IF k = 0 THEN Zoom1 ELSE ZoomMul(ZoomPow(f, k - 1), f)

\* the zooms on_mouse_wheel lets through
MapZooms ==
  {z \in {ZoomPow(f, k) : f \in {11, 9}, k \in 0 .. MaxZoomPower} :
     ZoomGeTenth(z) /\ ZoomLeTen(z)}

MapSources == {<<19, 7>>, <<24, 22>>, <<60, 40>>}
MapCanvases == {CanvasSize, <<21, 16>>}

MapInit ==
  /\ GuiInitWith(Defaults)
  /\ BatchInit
  /\ HistInit
  /\ g_result = [done |-> FALSE]
  /\ \E size \in MapSources, canvas \in MapCanvases, zoom \in MapZooms :
       \E x \in 0 .. (size[1] - 1) :
         g_args = [size |-> size, canvas |-> canvas, zoom |-> zoom,
                   p |-> <<x, (x * size[2]) \div size[1]>>]

RoundTrip ==
  /\ ~g_result.done
  /\ LET psize == preview_size(g_args.canvas, g_args.size, g_args.zoom)
         c == toCanvas(g_args.p, g_args.canvas, g_args.size, g_args.zoom)
     IN  g_result' =
           IF psize[1] <= 0 \/ psize[2] <= 0
           THEN [done |-> TRUE, drawn |-> FALSE]
           ELSE [done |-> TRUE, drawn |-> TRUE, psize |-> psize, canvas_point |-> c,
                 back |-> toSource(c, g_args.canvas, g_args.size, g_args.zoom, psize)]
  /\ UNCHANGED <<g_args, guiVars, batchVars, histVars>>

MapNext == RoundTrip

SpecMap == MapInit /\ [][MapNext]_vars

(***************************************************************************)
(* One drag in machine arithmetic: a pointer-down in the rendered image    *)
(* and pointer-moves to the right and down, at preview_scale 1.0, on       *)
(* pictures whose scale is a double of few bits (1, 3/4, 3/8, 1/4).        *)
(* g_args is the picture and the pointer-down; g_result the offsets (as    *)
(* floats), the drag start and the number of moves.                        *)
(***************************************************************************)
\* the pointer-moves of one drag
MaxDragMoves == 2

DragSources == {<<60, 40>>, <<100, 80>>, <<200, 160>>, <<320, 80>>}
DragPoints == {<<x, y>> : x \in 4 .. 8, y \in {22, 23}}

\* final_scale = min(canvas_width / w, canvas_height / h, 1.0) * 1.0 as a
\* float (lines 1074-1077, and 1037-1040)
float_final_scale(canvas, size) ==
  LET r == IF canvas[1] * size[2] <= canvas[2] * size[1]
           THEN <<canvas[1], size[1]>> ELSE <<canvas[2], size[2]>>
  IN  IF r[1] >= r[2] THEN FInt(1) ELSE FOdd(FDiv(r[1], r[2], 53))

DragInit ==
  /\ GuiInitWith(Defaults)
  /\ BatchInit
  /\ HistInit
  /\ g_args = [op |-> "none"]
  /\ g_result = [pressed |-> FALSE]

\* on_preview_click at c0 on the preview of a picture of the given size
DragPress ==
  \E size \in DragSources, c0 \in DragPoints :
    LET at == toSource(c0, CanvasSize, size, Zoom1,
                       preview_size(CanvasSize, size, Zoom1))
    IN  /\ ~g_result.pressed
        /\ at.inside
        /\ g_args' = [op |-> "drag", size |-> size, c0 |-> c0, at |-> at.point]
        /\ g_result' = [pressed |-> TRUE,
                        watermark_x_offset |-> FInt(at.point[1]),
                        watermark_y_offset |-> FInt(at.point[2]),
                        drag_start |-> c0,
                        moves |-> 0]

\* on_preview_drag to the point c (lines 1058-1093)
DragMove ==
  \E c \in DragPoints :
    LET dx == c[1] - g_result.drag_start[1]
        dy == c[2] - g_result.drag_start[2]
        fs == float_final_scale(CanvasSize, g_args.size)
    IN  /\ g_result.pressed
        /\ g_result.moves < MaxDragMoves
        /\ dx >= 0 /\ dy >= 0
        /\ \E orig_dx \in {IntDivF(dx, fs, 53)}, orig_dy \in {IntDivF(dy, fs, 53)} :
             g_result' = [g_result EXCEPT
               !.watermark_x_offset = FAdd(@, orig_dx, 53),
               !.watermark_y_offset = FAdd(@, orig_dy, 53),
               !.drag_start = c,
               !.moves = @ + 1]
        /\ UNCHANGED g_args

DragNext ==
  \/ DragPress /\ UNCHANGED <<guiVars, batchVars, histVars>>
  \/ DragMove /\ UNCHANGED <<guiVars, batchVars, histVars>>

SpecDrag == DragInit /\ [][DragNext]_vars

(***************************************************************************)
(* Output names: files of several folders and extensions are added to the  *)
(* list and a batch writes one output for each, under one prefix, suffix   *)
(* and format.  g_args holds the list and the settings, g_result the       *)
(* files the batch has written so far.                                     *)
(***************************************************************************)
\* the images of one list
MaxNames == 2
\* self.supported_formats (line 84)
supported_formats == {".jpg", ".jpeg", ".png", ".bmp", ".tiff", ".tif"}
\* the files the dialogs can return, as Path(parent / (stem + suffix))
NamedPaths ==
  [parent : {"in", "other"}, stem : {"a", "b"}, suffix : {".jpg", ".png", ".txt"}]

\* f"{prefix}{stem}{suffix}{output_ext}" in output_dir (lines 807-809)
output_path(dir, file_path, pre, suf, format) ==
  dir \o "/" \o pre \o file_path.stem \o suf \o output_ext(format)

NamesInit ==
  /\ GuiInitWith(Defaults)
  /\ BatchInit
  /\ HistInit
  /\ \E pre \in {"", "wm_"}, suf \in {"_watermarked", ""},
        format \in {"JPEG", "PNG"} :
       g_args = [op |-> "names", items |-> <<>>, prefix |-> pre,
                 suffix |-> suf, output_format |-> format]
  /\ g_result = [written |-> <<>>]

\* add_files on one file (lines 483-495), before the batch starts
NamesAdd ==
  \E path \in NamedPaths :
    /\ g_result.written = <<>>
    /\ Len(g_args.items) < MaxNames
    /\ path.suffix \in supported_formats
    /\ \A i \in 1 .. Len(g_args.items) : g_args.items[i] # path
    /\ g_args' = [g_args EXCEPT !.items = Append(@, path)]
    /\ UNCHANGED g_result

\* one iteration of the loop of process_thread (lines 876-887): the next
\* image of the list is saved under its output path
NamesWrite ==
  /\ Len(g_result.written) < Len(g_args.items)
  /\ LET file_path == g_args.items[Len(g_result.written) + 1]
     IN  g_result' = [g_result EXCEPT !.written =
           Append(@, [source |-> file_path,
                      path |-> output_path("out", file_path, g_args.prefix,
                                           g_args.suffix, g_args.output_format)])]
  /\ UNCHANGED g_args

NamesNext ==
  \/ NamesAdd /\ UNCHANGED <<guiVars, batchVars, histVars>>
  \/ NamesWrite /\ UNCHANGED <<guiVars, batchVars, histVars>>

SpecNames == NamesInit /\ [][NamesNext]_vars

(***************************************************************************)
(* Templates: the settings are saved as a JSON document and a document is  *)
(* loaded into the settings.  g_args holds the settings that were saved,   *)
(* g_result the document and the settings after loading it.                *)
(***************************************************************************)
\* the values before any document is loaded (lines 89-128), with the text
\* colour, the quality and the file name prefix and suffix
AllDefaults ==
  Defaults @@ [color |-> "white", output_quality |-> 95,
               filename_prefix |-> "", filename_suffix |-> "_watermarked"]
SettingKeys == DOMAIN AllDefaults

\* the Python type of settings[key] in save_settings (lines 1189-1211):
\* IntVar.get(), StringVar.get(), and the plain attributes
KeyType(key) ==
  IF key \in {"font_size", "text_opacity", "image_opacity", "image_scale",
              "rotation_angle", "output_quality", "resize_value"} THEN "int"
  ELSE IF key = "manual_position" THEN "bool"
  ELSE IF key \in {"watermark_x_offset", "watermark_y_offset"} THEN "float"
  ELSE "str"

\* the strings of the settings, and their characters
Words ==
  {"", "Text", "Image", "white", "EXIF Date", "Custom Text", "custom",
   "hi", "a\"b", "C:\\out", "out", "wm.png", "bottom-right", "center",
   "JPEG", "PNG", "_watermarked", "wm_", "none", "width"}
Spell(w) ==
  CASE w = "" -> <<>>
    [] w = "Text" -> <<"T", "e", "x", "t">>
    [] w = "Image" -> <<"I", "m", "a", "g", "e">>
    [] w = "white" -> <<"w", "h", "i", "t", "e">>
    [] w = "EXIF Date" -> <<"E", "X", "I", "F", " ", "D", "a", "t", "e">>
    [] w = "Custom Text" -> <<"C", "u", "s", "t", "o", "m", " ", "T", "e", "x", "t">>
    [] w = "custom" -> <<"c", "u", "s", "t", "o", "m">>
    [] w = "hi" -> <<"h", "i">>
    [] w = "a\"b" -> <<"a", "\"", "b">>
    [] w = "C:\\out" -> <<"C", ":", "\\", "o", "u", "t">>
    [] w = "out" -> <<"o", "u", "t">>
    [] w = "wm.png" -> <<"w", "m", ".", "p", "n", "g">>
    [] w = "bottom-right" -> <<"b", "o", "t", "t", "o", "m", "-", "r", "i", "g", "h", "t">>
    [] w = "center" -> <<"c", "e", "n", "t", "e", "r">>
    [] w = "JPEG" -> <<"J", "P", "E", "G">>
    [] w = "PNG" -> <<"P", "N", "G">>
    [] w = "_watermarked" -> <<"_", "w", "a", "t", "e", "r", "m", "a", "r", "k", "e", "d">>
    [] w = "wm_" -> <<"w", "m", "_">>
    [] w = "none" -> <<"n", "o", "n", "e">>
    [] w = "width" -> <<"w", "i", "d", "t", "h">>
Unspell(chars) ==
  IF \E w \in Words : Spell(w) = chars
  THEN CHOOSE w \in Words : Spell(w) = chars ELSE "?"

DigitChar(d) == <<"0", "1", "2", "3", "4", "5", "6", "7", "8", "9">>[d + 1]
DigitOf(c) == CHOOSE d \in 0 .. 9 : DigitChar(d) = c

RECURSIVE NatText(_)
\* the decimal digits of a natural number
NatText(n) ==
  IF n < 10 THEN <<DigitChar(n)>> ELSE NatText(n \div 10) \o <<DigitChar(n % 10)>>

RECURSIVE TextNat(_)
\* the natural number of a text of decimal digits
TextNat(t) ==
  IF t = <<>> THEN 0
  ELSE 10 * TextNat(SubSeq(t, 1, Len(t) - 1)) + DigitOf(t[Len(t)])

RECURSIVE StripZeros(_)
\* a fraction without its trailing zeros, one digit at least
StripZeros(t) ==
  IF Len(t) > 1 /\ t[Len(t)] = "0" THEN StripZeros(SubSeq(t, 1, Len(t) - 1)) ELSE t

\* float.__repr__ of a float with at most three decimals
float_repr(q) ==
  LET a == Abs(q[1])
      frac == ((a % q[2]) * 1000) \div q[2]
  IN  (IF q[1] < 0 THEN <<"-">> ELSE <<>>) \o NatText(a \div q[2]) \o <<".">>
        \o StripZeros(<<DigitChar(frac \div 100), DigitChar((frac \div 10) % 10),
                        DigitChar(frac % 10)>>)

RECURSIVE encode_basestring(_)
\* json.encoder.encode_basestring (ensure_ascii=False): the quotation mark
\* and the backslash are escaped
encode_basestring(chars) ==
  IF chars = <<>> THEN <<>>
  ELSE (IF Head(chars) \in {"\"", "\\"} THEN <<"\\", Head(chars)>> ELSE <<Head(chars)>>)
         \o encode_basestring(Tail(chars))

RECURSIVE scanstring(_)
\* json.decoder.scanstring on the characters between the quotation marks
scanstring(t) ==
  IF t = <<>> THEN <<>>
  ELSE IF Head(t) = "\\" THEN <<t[2]>> \o scanstring(SubSeq(t, 3, Len(t)))
  ELSE <<Head(t)>> \o scanstring(Tail(t))

\* json.dumps of one value of the settings
json_dumps(type, v) ==
  CASE type = "str" -> <<"\"">> \o encode_basestring(Spell(v)) \o <<"\"">>
    [] type = "bool" -> IF v THEN <<"t", "r", "u", "e">> ELSE <<"f", "a", "l", "s", "e">>
    [] type = "int" -> (IF v < 0 THEN <<"-">> ELSE <<>>) \o NatText(Abs(v))
    [] OTHER -> float_repr(v)

\* json.loads of one value: a string, true or false, a float (a number
\* with a decimal point) or an int
json_loads(t) ==
  LET neg == Head(t) = "-"
      num == IF neg THEN Tail(t) ELSE t
      point == IF \E i \in 1 .. Len(num) : num[i] = "."
               THEN CHOOSE i \in 1 .. Len(num) : num[i] = "." ELSE 0
      whole == TextNat(SubSeq(num, 1, point - 1))
      decimals == SubSeq(num, point + 1, Len(num))
      scale == 10 ^ Len(decimals)
      sign == IF neg THEN -1 ELSE 1
  IN  IF Head(t) = "\"" THEN Unspell(scanstring(SubSeq(t, 2, Len(t) - 1)))
      ELSE IF t = <<"t", "r", "u", "e">> THEN TRUE
      ELSE IF t = <<"f", "a", "l", "s", "e">> THEN FALSE
      ELSE IF point # 0 THEN Rat(sign * (whole * scale + TextNat(decimals)), scale)
      ELSE sign * TextNat(num)

\* json.dump(settings, f) of save_settings (lines 1189-1218) and of
\* save_last_settings (lines 1422-1448): the text of each key
json_dump(settings) ==
  [key \in SettingKeys |-> json_dumps(KeyType(key), settings[key])]

\* json.load(f), for a document that lacks the keys of missing
json_load(document, missing) ==
  [key \in DOMAIN document \ missing |-> json_loads(document[key])]

\* the body shared by apply_template (lines 1232-1260) and
\* load_last_settings (lines 1153-1181) on all keys
load_settings(doc, s) ==
  LET get(key) == IF key \in DOMAIN doc THEN doc[key] ELSE AllDefaults[key]
  IN  [LoadSettings(doc, s) EXCEPT
         !.color = get("color"),
         !.output_quality = get("output_quality"),
         !.filename_prefix = get("filename_prefix"),
         !.filename_suffix = get("filename_suffix")]

\* the settings a document is saved from
TemplateSettings ==
  {[AllDefaults EXCEPT !.watermark_type = type,
                       !.custom_watermark_text = text,
                       !.output_dir = dir,
                       !.manual_position = manual,
                       !.watermark_x_offset = x,
                       !.watermark_y_offset = y,
                       !.rotation_angle = angle,
                       !.output_quality = quality] :
     type \in {"Text", "Image"}, text \in {"custom", "hi", "a\"b"},
     dir \in {"", "C:\\out"}, manual \in BOOLEAN,
     x \in {<<0, 1>>, <<25, 2>>}, y \in {<<0, 1>>, <<-15, 4>>},
     angle \in {0, -45}, quality \in {95, 7}}

\* the settings a template is applied to
SettingsBefore ==
  {AllDefaults,
   [AllDefaults EXCEPT !.watermark_type = "Image", !.custom_watermark_text = "hi",
                       !.image_watermark_path = "wm.png", !.position = "center",
                       !.manual_position = TRUE, !.watermark_x_offset = <<7, 1>>,
                       !.watermark_y_offset = <<7, 2>>, !.rotation_angle = 90,
                       !.output_format = "PNG", !.output_quality = 50,
                       !.output_dir = "out", !.filename_prefix = "wm_",
                       !.filename_suffix = "", !.resize_option = "width",
                       !.resize_value = 50, !.font_size = 12, !.text_opacity = 40,
                       !.image_opacity = 30, !.image_scale = 55,
                       !.watermark_text_source = "Custom Text"]}

\* the keys a document of another version lacks
MissingKeys ==
  {{}, {"manual_position", "watermark_x_offset", "watermark_y_offset"},
   {"color", "output_quality", "custom_watermark_text"}, SettingKeys}

TemplateInit ==
  /\ GuiInitWith(Defaults)
  /\ BatchInit
  /\ HistInit
  /\ g_args = [op |-> "none"]
  /\ g_result = [done |-> FALSE]

\* save_settings or save_last_settings
TemplateSave ==
  \E settings \in TemplateSettings, via \in {"save_settings", "save_last_settings"} :
    /\ g_args.op = "none"
    /\ g_args' = [op |-> "save", via |-> via, settings |-> settings]
    /\ g_result' = [done |-> FALSE, document |-> json_dump(settings)]

\* apply_template from any settings, or load_last_settings from those of
\* __init__
TemplateLoad ==
  \E before \in SettingsBefore, via \in {"apply_template", "load_last_settings"},
     missing \in MissingKeys :
    /\ g_args.op = "save"
    /\ ~g_result.done
    /\ via = "load_last_settings" => before = AllDefaults
    /\ g_result' = [done |-> TRUE, document |-> g_result.document, via |-> via,
                    before |-> before, missing |-> missing,
                    loaded |-> load_settings(json_load(g_result.document, missing),
                                             before)]
    /\ UNCHANGED g_args

TemplateNext ==
  \/ TemplateSave /\ UNCHANGED <<guiVars, batchVars, histVars>>
  \/ TemplateLoad /\ UNCHANGED <<guiVars, batchVars, histVars>>

SpecTemplate == TemplateInit /\ [][TemplateNext]_vars

(***************************************************************************)
(* Batches: the image list and the settings change while workers run.      *)
(***************************************************************************)
\* what the file dialog returns
BatchPathLists == {<<"in/a.jpg">>, <<"in/b.jpg">>, <<"in/a.jpg", "in/b.jpg", "in/notes.txt">>}
\* the batches of one run
MaxBatches == 1
\* what the folder dialog returns ("": cancelled)
OutputDirs == {"out", ""}
BatchTemplateDocs == {DocEmptyText, DocOld}

BatchNext ==
  \/ \E paths \in BatchPathLists : add_files(paths) /\ Ghost
  \/ clear_list /\ Ghost
  \/ \E directory \in OutputDirs : select_output_dir(directory) /\ Ghost
  \/ \E doc \in BatchTemplateDocs : apply_template(doc) /\ Ghost
  \/ \E answer \in BOOLEAN :
       Len(workers) < MaxBatches /\ process_images(answer) /\ Ghost
  \/ \E n \in 1 .. Len(workers) : process_thread_start(n) /\ Ghost
  \/ \E n \in 1 .. Len(workers) : process_thread_step(n) /\ Ghost
  \/ \E n \in 1 .. Len(workers) : run_after(n) /\ Ghost

SpecBatch == Init /\ [][BatchNext]_vars

(***************************************************************************)
(* Starting again: the user presses 'start processing' while batches run.  *)
(***************************************************************************)
\* the times 'start processing' is pressed in one run
MaxStarts == 2

\* what the folder dialog returns: a new folder, the folder of the
\* pictures, or "" (cancelled)
RerunDirs == {"out", "in", ""}

\* whether 'start processing' asks the user to confirm (lines 842-846 are
\* reached and the output folder is a folder of the pictures)
Asked ==
  /\ image_items # <<>>
  /\ output_dir # ""
  /\ output_dir \in {Parent(image_items[i]) : i \in 1 .. Len(image_items)}

RerunNext ==
  \/ \E paths \in BatchPathLists : add_files(paths) /\ Ghost
  \/ \E directory \in RerunDirs : select_output_dir(directory) /\ Ghost
  \/ \E answer \in BOOLEAN :
       /\ Len(workers) < MaxStarts
       /\ process_images(answer)
       /\ g_args' = [op |-> "process_images", asked |-> Asked,
                     answer |-> Asked /\ answer]
       /\ UNCHANGED <<press_inside, n_moves, g_result>>
  \/ \E n \in 1 .. Len(workers) : process_thread_start(n) /\ Ghost
  \/ \E n \in 1 .. Len(workers) : process_thread_step(n) /\ Ghost

SpecRerun == Init /\ [][RerunNext]_vars

NoResult == [done |-> FALSE]

(***************************************************************************)
(* The resolvers as a specification: Init draws the arguments, Resolve     *)
(* calls both resolvers on them.                                           *)
(***************************************************************************)
ImageSizes == ((MaxW - 5) .. MaxW) \X ((MaxH - 2) .. MaxH)
ContentSizes == (1 .. (MaxW + 1)) \X (1 .. (MaxH + 1))
\* manual offsets as the drag handlers leave them: floats, possibly
\* fractional, negative or beyond the image
ManualOffsets == {<<0, 1>>, <<7, 2>>, <<-7, 2>>, <<-1, 4>>, <<55, 2>>, <<30, 1>>}

GeomInit ==
  /\ GuiInitWith(Defaults)
  /\ BatchInit
  /\ HistInit
  /\ g_result = NoResult
  /\ \/ \E is \in ImageSizes, cs \in ContentSizes, p \in Anchors \cup Unrecognized :
          g_args = [image_size |-> is, watermark_size |-> cs, position |-> p,
                    manual_x |-> RInt(0), manual_y |-> RInt(0)]
     \/ \E is \in {<<MaxW, MaxH>>, <<MaxW - 5, MaxH - 2>>},
           cs \in {<<1, 1>>, <<MaxW + 1, MaxH + 1>>},
           mx \in ManualOffsets, my \in ManualOffsets :
          g_args = [image_size |-> is, watermark_size |-> cs, position |-> "manual",
                    manual_x |-> mx, manual_y |-> my]

Resolve ==
  /\ g_result = NoResult
  /\ g_result' =
       [done |-> TRUE,
        gui |-> get_position_coordinates(g_args.image_size, g_args.watermark_size,
                  g_args.position, g_args.manual_x, g_args.manual_y),
        cli |-> cli_get_position_coordinates(g_args.image_size, g_args.watermark_size,
                  g_args.position)]
  /\ UNCHANGED <<g_args, guiVars, batchVars, histVars>>

GeomNext == Resolve

SpecGeom == GeomInit /\ [][GeomNext]_vars

(***************************************************************************)
(* The rendering functions as a specification: each action calls one of    *)
(* them once, on arguments of its choice, and records the call in g_args   *)
(* and what it returned in g_result.                                       *)
(***************************************************************************)
\* process_single_image and update_preview_image on one file under one
\* choice of settings
RenderSingle ==
  \E item \in Files, type \in {"Text", "Image"}, path \in WatermarkPaths,
     scale \in {1, 20, 29, 100}, option \in ResizeOptions \cup {"fit"},
     value \in {0, 50, 100}, format \in {"JPEG", "PNG", "BMP"},
     opacity \in {50, 100}, angle \in {0, 90} :
    LET s == [Defaults EXCEPT !.watermark_type = type,
                              !.rotation_angle = angle,
                              !.image_watermark_path = path,
                              !.image_scale = scale,
                              !.resize_option = option,
                              !.resize_value = value,
                              !.output_format = format,
                              !.image_opacity = opacity,
                              !.text_opacity = opacity,
                              !.position = "center"]
    IN  /\ g_args' = [op |-> "single", item |-> item, s |-> s]
        /\ g_result' =
             [done |-> TRUE,
              single |-> process_single_image(item, "out", Params(s, NoItem)),
              preview |-> update_preview_image(
                            [image |-> NoImage, status |-> "none"], item, s, Zoom1)]

\* process_single_image and update_preview_image on one file under one
\* placement (an anchor, or a manual offset as the drag handlers leave it)
\* and one resize policy
RenderPlaced ==
  \E item \in Files, type \in {"Text", "Image"},
     option \in ResizeOptions, value \in {50, 100},
     anchor \in {"top-left", "center", "bottom-right"},
     manual \in BOOLEAN, mx \in {RInt(0), RInt(30)}, my \in {RInt(0), RInt(30)} :
    LET s == [Defaults EXCEPT !.watermark_type = type,
                              !.image_watermark_path = "wm.png",
                              !.image_scale = 20,
                              !.resize_option = option,
                              !.resize_value = value,
                              !.position = anchor,
                              !.manual_position = manual,
                              !.watermark_x_offset = IF manual THEN mx ELSE RInt(0),
                              !.watermark_y_offset = IF manual THEN my ELSE RInt(0)]
    IN  /\ g_args' = [op |-> "placed", item |-> item, s |-> s]
        /\ g_result' =
             [done |-> TRUE,
              single |-> process_single_image(item, "out", Params(s, NoItem)),
              preview |-> update_preview_image(
                            [image |-> NoImage, status |-> "none"], item, s, Zoom1)]

\* the widths of the host images of the calls of watermark_target_size
MaxHost == 100
\* the sizes of the watermark images of those calls
WatermarkSizes == {<<400, 200>>, <<3, 2>>, <<2, 3>>}

\* the sizing of the watermark image for one host width, scale and
\* watermark size
RenderSize ==
  \E base_width \in (1 .. MaxHost) \cup {1000}, scale_percent \in 1 .. 100,
     wsize \in WatermarkSizes :
    /\ g_args' = [op |-> "size", base_width |-> base_width,
                  scale_percent |-> scale_percent, wsize |-> wsize]
    /\ g_result' = [done |-> TRUE,
                    target |-> watermark_target_size(base_width, scale_percent, wsize)]

\* the opacity adjustment of one alpha level of the watermark image
RenderOpacity ==
  \E a \in 0 .. 255, opacity \in {0, 1, 20, 42, 50, 53, 59, 84, 99, 100} :
    /\ g_args' = [op |-> "opacity", a |-> a, image_opacity |-> opacity]
    /\ g_result' = [done |-> TRUE, a |-> watermark_alpha(a, opacity)]

\* the placement of a rotated text layer: the text size, the position
\* resolved for it on an image of MaxW x MaxH, and the size of the layer
\* after Image.rotate(angle, expand=True), which for the angles between the
\* quarter turns is larger than the scratch layer
RenderRotated ==
  \E tw \in 1 .. 4, th \in 1 .. 3, p \in {"center", "bottom-right", "top-left"},
     grow_w \in 0 .. 5, grow_h \in 0 .. 5 :
    LET ts == <<tw, th>>
        max_dim == Max(tw, th) * 2
        rotated == <<max_dim + grow_w, max_dim + grow_h>>
        xy == get_position_coordinates(<<MaxW, MaxH>>, ts, p, RInt(0), RInt(0))
    IN  /\ g_args' = [op |-> "rotated", ts |-> ts, xy |-> xy, rotated |-> rotated]
        /\ g_result' = [done |-> TRUE, paste |-> rotated_paste(xy, ts, rotated)]

\* one pixel of an image under one pixel of the watermark layer, in each
\* path: under the glyph or the background box of an unrotated or rotated
\* text ("white" on black), or under a pixel of the watermark image; layer
\* is the pixel of the watermark layer that is laid on the image
RenderComposite ==
  \E base_c \in {0, 100, 255}, base_a \in {128, 255},
     path \in {"text", "rotated", "image"}, region \in {"content", "box"},
     opacity \in {0, 50, 100}, wm_c \in {0, 200}, wm_a \in {128, 255} :
    LET base == [c |-> base_c, a |-> base_a]
        image == [size |-> <<MaxW, MaxH>>, pixel |-> base]
        text == text_rendering(image, <<1, 1>>, <<0, 0>>, opacity,
                               IF path = "rotated" THEN 90 ELSE 0)
        watermark == [c |-> wm_c, a |-> wm_a]
        layer ==
          IF path = "image"
          THEN [watermark EXCEPT !.a = watermark_alpha(@, opacity)]
          ELSE IF region = "content"
          THEN [c |-> 255, a |-> IntMulDiv(255, opacity, 100)]
          ELSE [c |-> 0, a |-> IntMulDiv(128, opacity, 100)]
    IN  /\ path = "image" => region = "content"
        /\ path # "image" => wm_c = 200 /\ wm_a = 255
        /\ g_args' = [op |-> "composite", path |-> path, region |-> region,
                      base |-> base, layer |-> layer, opacity |-> opacity]
        /\ g_result' =
             [done |-> TRUE,
              pixel |-> IF path = "image"
                        THEN image_rendering(base, watermark, opacity)
                        ELSE IF region = "content" THEN text.pixel ELSE text.box]

\* the encoding of one pixel of the composited canvas (lines 806-820), for
\* the formats of the combobox and one it does not offer
RenderEncode ==
  \E c \in {0, 1, 100, 254, 255}, a \in 0 .. 255, format \in {"JPEG", "PNG", "BMP"} :
    /\ g_args' = [op |-> "encode", pixel |-> [c |-> c, a |-> a], format |-> format]
    /\ g_result' = [done |-> TRUE,
                    pixel |-> encode([c |-> c, a |-> a], format),
                    ext |-> output_ext(format)]

RenderInit ==
  /\ GuiInitWith(Defaults)
  /\ BatchInit
  /\ HistInit
  /\ g_args = [op |-> "none"]
  /\ g_result = NoResult

RenderNext ==
  /\ g_result = NoResult
  /\ UNCHANGED <<guiVars, batchVars, histVars>>
  /\ \/ RenderSingle
     \/ RenderPlaced
     \/ RenderSize
     \/ RenderOpacity
     \/ RenderRotated
     \/ RenderComposite
     \/ RenderEncode

SpecRender == RenderInit /\ [][RenderNext]_vars

(***************************************************************************)
(* Claims about the resolvers (checked under SpecGeom).                    *)
(***************************************************************************)
\* v is floor(d / 2), said without a division
IsFloorHalf(v, d) == 2 * v <= d /\ d <= 2 * v + 1

ArgW == g_args.image_size[1]
ArgH == g_args.image_size[2]
Argw == g_args.watermark_size[1]
Argh == g_args.watermark_size[2]

\* the column and the row of a named anchor
LeftCol == {"top-left", "center-left", "bottom-left"}
MidCol == {"top-center", "center", "bottom-center"}
RightCol == {"top-right", "center-right", "bottom-right"}
TopRow == {"top-left", "top-center", "top-right"}
MidRow == {"center-left", "center", "center-right"}
BottomRow == {"bottom-left", "bottom-center", "bottom-right"}

\* (x, y) is what the spec's formula gives for the named anchor p
SpecFormula(p, x, y) ==
  /\ p \in LeftCol => x = M
  /\ p \in MidCol => IsFloorHalf(x, ArgW - Argw)
  /\ p \in RightCol => x = ArgW - Argw - M
  /\ p \in TopRow => y = M
  /\ p \in MidRow => IsFloorHalf(y, ArgH - Argh)
  /\ p \in BottomRow => y = ArgH - Argh - M

\* C1: for each of the nine named anchors and every image and content size
\* the GUI resolver returns the spec's formula with margin 10, with floor
\* division also for negative differences and negative results unclamped,
\* and the command line resolver returns the same value.
C1_AnchorFormulas ==
  (g_result.done /\ g_args.position \in Anchors) =>
    /\ SpecFormula(g_args.position, g_result.gui[1], g_result.gui[2])
    /\ g_result.cli = g_result.gui

\* C1's case: the centre anchor with content wider and higher than the image
\* by an odd amount, where floor and truncation differ
C1_Witness ==
  /\ g_result.done
  /\ g_args.position = "center"
  /\ ArgW - Argw = -1
  /\ ArgH - Argh = -3
  /\ g_result.gui = <<-1, -2>>

\* C2: for the nine named anchors and 0 < w < W, 0 < h < H: when w <= W-2M
\* and h <= H-2M the content lies inside the image; outside that range the
\* coordinate is returned as computed (the right and bottom anchors keep the
\* margin to the far edge, the left and top anchors keep x = M, y = M).
C2_InBoundsUnlessMargin ==
  (/\ g_result.done
   /\ g_args.position \in Anchors
   /\ 0 < Argw /\ Argw < ArgW /\ 0 < Argh /\ Argh < ArgH) =>
    LET x == g_result.gui[1]
        y == g_result.gui[2]
    IN  /\ (Argw <= ArgW - 2 * M /\ Argh <= ArgH - 2 * M) =>
             (x >= 0 /\ y >= 0 /\ x + Argw <= ArgW /\ y + Argh <= ArgH)
        /\ (x < 0 \/ y < 0 \/ x + Argw > ArgW \/ y + Argh > ArgH) =>
             (Argw > ArgW - 2 * M \/ Argh > ArgH - 2 * M)
        /\ g_args.position \in RightCol => x + Argw + M = ArgW
        /\ g_args.position \in BottomRow => y + Argh + M = ArgH
        /\ g_args.position \in LeftCol => x = M
        /\ g_args.position \in TopRow => y = M

\* C2's case: content that leaves the margin free on both axes, resolved
\* at the bottom-right anchor
C2_Witness ==
  /\ g_result.done
  /\ g_args.position = "bottom-right"
  /\ 0 < Argw /\ Argw <= ArgW - 2 * M
  /\ 0 < Argh /\ Argh <= ArgH - 2 * M
  /\ g_result.gui[1] >= M /\ g_result.gui[2] >= M

\* C3: a position name that is neither a named anchor nor the manual marker
\* resolves to the bottom-right coordinate (W-w-10, H-h-10), in the GUI and
\* in the command line resolver.
C3_UnknownFallsBack ==
  (g_result.done /\ g_args.position \notin Anchors \cup {"manual"}) =>
    /\ g_result.gui = <<ArgW - Argw - M, ArgH - Argh - M>>
    /\ g_result.cli = <<ArgW - Argw - M, ArgH - Argh - M>>

\* C3's case: an unknown name resolved for content that fits
C3_Witness ==
  /\ g_result.done
  /\ g_args.position = "middle"
  /\ g_args.image_size = <<MaxW, MaxH>>
  /\ g_args.watermark_size = <<3, 2>>
  /\ g_result.gui = <<MaxW - 3 - M, MaxH - 2 - M>>

(***************************************************************************)
(* Claims about manual placement (checked under Spec).                     *)
(***************************************************************************)
\* v is the rational q cut to an integer toward zero, said without int
IsTrunc(v, q) ==
  IF q[1] >= 0
  THEN v >= 0 /\ v * q[2] <= q[1] /\ q[1] < (v + 1) * q[2]
  ELSE v <= 0 /\ (v - 1) * q[2] < q[1] /\ q[1] <= v * q[2]

\* image and content sizes the resolver is asked about
SomeSizes == {<<1, 1>>, <<60, 40>>, <<400, 200>>}

\* the renderers paste at the resolved coordinate (no rotation shift)
Unrotated(type, angle) == type = "Image" \/ angle = 0

\* C4: in manual mode the paste coordinate is the stored offset with each
\* coordinate cut to an integer toward zero (the offset itself when it is
\* integral), for every offset that pointer-downs and pointer-moves produce
\* and every image and content size, without clamping: in the resolver, in
\* the preview and in the files a batch writes.
C4_ManualTruncated ==
  /\ manual_position =>
       /\ \A is \in SomeSizes, cs \in SomeSizes :
            LET xy == get_position_coordinates(is, cs, "manual",
                        watermark_x_offset, watermark_y_offset)
            IN  IsTrunc(xy[1], watermark_x_offset) /\ IsTrunc(xy[2], watermark_y_offset)
       /\ (preview_status = "ok" /\ Unrotated(watermark_type, rotation_angle)) =>
            /\ IsTrunc(preview_image.paste[1], watermark_x_offset)
            /\ IsTrunc(preview_image.paste[2], watermark_y_offset)
  /\ \A n \in 1 .. Len(workers), f \in out_files :
       LET w == workers[n]
       IN  (/\ w.params.position = "manual"
            /\ Unrotated(w.params.watermark_type, w.params.rotation_angle)) =>
             /\ IsTrunc(f.image.paste[1], w.params.manual_x)
             /\ IsTrunc(f.image.paste[2], w.params.manual_y)

\* C4's case: a drag at zoom 1.1 has left a fractional offset, negative in
\* x, and the preview and a batch have pasted at the truncated coordinate
C4_Witness ==
  /\ manual_position
  /\ n_moves > 0
  /\ watermark_x_offset[2] # 1 /\ watermark_x_offset[1] < 0
  /\ preview_status = "ok"
  /\ Unrotated(watermark_type, rotation_angle)
  /\ RInt(preview_image.paste[1]) # watermark_x_offset
  /\ \E f \in out_files : RInt(f.image.paste[1]) # watermark_x_offset
  /\ \A n \in 1 .. Len(workers) : workers[n].params.manual_x = watermark_x_offset

\* C4 as stated: in manual mode the paste coordinate equals the stored
\* offset exactly
C4_Verbatim ==
  manual_position =>
    \A is \in SomeSizes, cs \in SomeSizes :
      LET xy == get_position_coordinates(is, cs, "manual",
                  watermark_x_offset, watermark_y_offset)
      IN  RInt(xy[1]) = watermark_x_offset /\ RInt(xy[2]) = watermark_y_offset

\* the steps of the two handlers that select a named anchor
AnchorSelection ==
  \E p \in Anchors : on_position_changed(p) \/ select_position(p)

OffsetsUnchanged == UNCHANGED <<watermark_x_offset, watermark_y_offset>>
OffsetsZero == watermark_x_offset = RInt(0) /\ watermark_y_offset = RInt(0)

\* C5 as stated: every selection of a named anchor, by on_position_changed
\* or by select_position, leaves manual mode cleared and the offset (0,0).
C5_AnchorSelectionResets ==
  [][AnchorSelection => (~manual_position' /\ OffsetsZero')]_vars

\* the steps of a pointer-down and of a pointer-move
PointerDown == \E pt \in Points : on_preview_click(pt[1], pt[2])
PointerMove == \E pt \in Points : on_preview_drag(pt[1], pt[2])

\* C6: manual mode, once active, stays active with its offset unchanged
\* through wheel zoom, the start of a batch, the worker's steps, added
\* files, a cleared list and a pointer-release, and stays active through
\* pointer-downs and pointer-moves, which alone move the offset; it is left
\* with the offset (0,0) by selecting an image for preview and by a double
\* click, and a loaded template replaces mode and offset by its own values
\* (off and (0,0) when it has none).
C6_ManualPersists ==
  [][manual_position =>
       /\ (manual_position' /\ OffsetsUnchanged) \/
            ~( \/ \E delta \in WheelDeltas : on_mouse_wheel(delta)
               \/ process_images(TRUE)
               \/ \E n \in 1 .. Len(workers) : process_thread_step(n)
               \/ \E paths \in PathLists : add_files(paths)
               \/ clear_list
               \/ on_preview_release )
       /\ manual_position' \/ ~(PointerDown \/ PointerMove)
       /\ (~manual_position' /\ OffsetsZero') \/
            ~( \/ \E i \in 1 .. Len(image_items) : select_image_for_preview(i)
               \/ reset_preview )
       /\ \A doc \in TemplateDocs :
            \/ /\ manual_position' = DocGet(doc, "manual_position")
               /\ watermark_x_offset' = DocGet(doc, "watermark_x_offset")
               /\ watermark_y_offset' = DocGet(doc, "watermark_y_offset")
            \/ ~apply_template(doc)
       /\ (~manual_position' \/ ~OffsetsUnchanged) =>
            \/ PointerDown \/ PointerMove \/ AnchorSelection \/ reset_preview
            \/ \E i \in 1 .. Len(image_items) : select_image_for_preview(i)
            \/ \E doc \in TemplateDocs : apply_template(doc)
  ]_vars

\* C6's case: the offset (-10,-10) of a drag at zoom 1.0 on in/a.jpg is
\* still the manual offset after a wheel event has made the zoom 1.1 and a
\* batch has been started with it (a drag at zoom 1.1 moves by multiples of
\* 30/1.1, and selecting an image leaves manual mode)
C6_Witness ==
  /\ manual_position
  /\ current_preview_item = "in/a.jpg"
  /\ preview_scale = ZoomMul(Zoom1, 11)
  /\ watermark_x_offset = RInt(-10) /\ watermark_y_offset = RInt(-10)
  /\ preview_status = "ok" /\ preview_image.scale.zoom = preview_scale
  /\ Len(workers) = 1
  /\ workers[1].params.position = "manual"
  /\ workers[1].params.manual_x = RInt(-10)

\* C6 as stated: no step other than the selection of a named anchor leaves
\* manual mode, and only drags change the offset.
C6_OnlyAnchorSelectionClears ==
  [][(manual_position /\ ~AnchorSelection) =>
       (manual_position' /\ (OffsetsUnchanged \/ PointerDown \/ PointerMove))]_vars

\* C7 as stated: a pointer-move changes mode and offset only between a
\* pointer-down inside the rendered image and the next release.
C7_DragOnlyAfterInsidePress ==
  [][(PointerMove /\ ~(press_inside /\ is_dragging)) =>
       (manual_position' = manual_position /\ OffsetsUnchanged)]_vars

(***************************************************************************)
(* Claims about the zoom (checked under SpecZoom).                         *)
(***************************************************************************)
\* 0.1 <= z <= 10 for the decimal z = n / 10^p
ZoomInRange(z) ==
  /\ BigLe(TenPow(z.p), BigMulSmall(z.n, 10, 0))
  /\ BigLe(z.n, TenPow(z.p + 1))

\* q = min(cw / W, ch / H, 1), said without RMin
IsAutoFit(q, canvas, size) ==
  LET a == Rat(canvas[1], size[1])
      b == Rat(canvas[2], size[2])
  IN  /\ RLe(q, a) /\ RLe(q, b) /\ RLe(q, RInt(1))
      /\ q \in {a, b, RInt(1)}

\* v = floor(q) for the rational q >= 0
IsFloor(v, q) == v * q[2] <= q[1] /\ q[1] < (v + 1) * q[2]

\* C8: the user zoom is in [0.1, 10] after every sequence of wheel events
\* and image selections, and a rendered preview is drawn at
\* min(canvasW/sourceW, canvasH/sourceH, 1.0) times the user zoom.
C8_ZoomClamped ==
  /\ ZoomInRange(preview_scale)
  /\ preview_status = "ok" =>
       LET size == ImageSize(current_preview_item)
           fs == preview_image.scale
       IN  /\ fs.zoom = preview_scale
           /\ IsAutoFit(fs.auto, CanvasSize, size)
           /\ preview_scale.p <= 3 =>
                LET e == RMul(fs.auto, Rat(BigToInt(preview_scale.n),
                                           Pow10(preview_scale.p)))
                IN  /\ IsFloor(preview_image.size[1], RMul(RInt(size[1]), e))
                    /\ IsFloor(preview_image.size[2], RMul(RInt(size[2]), e))

\* C8's case: the large image drawn at a zoom that one more wheel event up
\* would take above 10
C8_Witness ==
  /\ current_preview_item = "in/b.jpg"
  /\ preview_status = "ok"
  /\ preview_image.scale.auto = Rat(1, 5)
  /\ preview_image.scale.zoom = preview_scale
  /\ ~ZoomInRange(ZoomMul(preview_scale, 11))
  /\ preview_image.size[1] > 9 * CanvasSize[1]

(***************************************************************************)
(* Claims about the pointer mapping (checked under SpecMap).               *)
(***************************************************************************)
\* the effective scale of the round trip
MapScale == final_scale(g_args.canvas, g_args.size, g_args.zoom)

\* q - p <= 1/s and p - q < 2/s + 1 for the effective scale s
MapErrorBound(pc, qc) ==
  /\ pc - qc >= 1 => ~ScaleTimesGe(pc - qc - 1, MapScale, 2)
  /\ pc - qc < 0 => ScaleTimesLe(qc - pc, MapScale, 1)

NoTextContent(params, item) ==
  /\ params.watermark_type = "Text"
  /\ \/ params.watermark_text_source = "EXIF Date" /\ ExifDate(item) = ""
     \/ params.watermark_text_source # "EXIF Date" /\ params.custom_watermark_text = ""

Last(seq) == seq[Len(seq)]

\* the files of a list that carry an EXIF date
RECURSIVE Dated(_)
Dated(files) ==
  IF files = <<>> THEN {}
  ELSE (IF ExifDate(Head(files)) # "" THEN {Head(files)} ELSE {}) \cup Dated(Tail(files))

\* C10: when the text watermark has no content for the image a worker
\* takes next, the text renderer returns no image and a reason,
\* process_single_image returns (False, reason), no file is written, and
\* the worker has moved on to the following position of the list without
\* ending; whatever the earlier results, a round of the loop handles the
\* next image of the list.  The command line tool skips an undated file
\* in the same way and handles the rest of the directory.
C10_NoContentSkips ==
  [][\A n \in 1 .. Len(workers) :
       (process_thread_step(n) /\ workers[n].k < Len(image_items)) =>
         LET w == workers[n]
             item == image_items[w.k + 1]
             params == [w.params EXCEPT !.image_item = item]
             r == apply_text_watermark([size |-> ImageSize(item),
                                        pixel |-> BasePixel(item)], params)
             cli == cli_process_directory(image_items)
         IN  /\ Len(workers'[n].log) = Len(w.log) + 1
             /\ Last(workers'[n].log).item = item
             /\ workers'[n].k = w.k + 1
             /\ ~workers'[n].done
             /\ NoTextContent(w.params, item) =>
                  /\ r.status = "none" /\ r.image = NoImage
                  /\ r.message \in {"no EXIF date", "custom text is empty"}
                  /\ ~Last(workers'[n].log).success
                  /\ Last(workers'[n].log).message = r.message
                  /\ out_files' = out_files
                  /\ workers'[n].success_count = w.success_count
             /\ ExifDate(item) = "" =>
                  /\ ~cli_add_watermark(item, 36, "bottom-right", "in/in_watermark").ok
                  /\ cli_add_watermark(item, 36, "bottom-right", "in/in_watermark").saved = {}
                  /\ cli.total = Len(image_items)
                  /\ cli.success = Cardinality(Dated(image_items))
                  /\ {f.path : f \in cli.saved} =
                       {"in/in_watermark/" \o Name(g) : g \in Dated(image_items)}
  ]_vars

\* C10's case: a finished batch with the EXIF date as text that failed on
\* the undated in/b.jpg, wrote nothing for it, and then wrote in/a.jpg
C10_Witness ==
  /\ Len(workers) = 1
  /\ workers[1].done
  /\ workers[1].params.watermark_type = "Text"
  /\ workers[1].params.watermark_text_source = "EXIF Date"
  /\ Len(workers[1].log) = 2
  /\ workers[1].log[1] = [item |-> "in/b.jpg", success |-> FALSE, message |-> "no EXIF date"]
  /\ workers[1].log[2].item = "in/a.jpg" /\ workers[1].log[2].success
  /\ workers[1].success_count = 1
  /\ {f.path : f \in out_files} = {"out/a_watermarked.jpg"}

(***************************************************************************)
(* Claims about the rendering functions (checked under SpecRender).        *)
(***************************************************************************)
Called(op) == g_result.done /\ g_args.op = op

\* the watermark image of the settings s cannot be loaded
NoWatermarkImage(s) ==
  /\ s.watermark_type = "Image"
  /\ \/ s.image_watermark_path = ""
     \/ ~PathExists(s.image_watermark_path)
     \/ ~Readable(s.image_watermark_path)

\* C11: when the watermark image path is empty, names no file, or names a
\* file that cannot be read, process_single_image returns (False, reason)
\* for the image and writes no file, and update_preview_image shows the
\* error in the status label and draws nothing.
C11_NoWatermarkImageFails ==
  (Called("single") /\ NoWatermarkImage(g_args.s)) =>
    /\ ~g_result.single.success
    /\ g_result.single.message # "ok"
    /\ g_result.single.saved = {}
    /\ g_result.preview.status = "error"
    /\ g_result.preview.image = NoImage

\* C11's case: the path names a file that is not an image, so that opening
\* it raises, and neither the resize nor the format stands in the way
C11_Witness ==
  /\ Called("single")
  /\ g_args.s.watermark_type = "Image"
  /\ g_args.s.image_watermark_path = "bad.png"
  /\ g_args.s.resize_option = "none"
  /\ g_result.single = [success |-> FALSE, message |-> "cannot identify image file",
                        saved |-> {}]
  /\ g_result.preview.status = "error"

\* v is the quotient n / d rounded to a nearest integer
IsRound(v, n, d) == 2 * (v * d - n) <= d /\ 2 * (n - v * d) <= d

\* C12: for every host width, scale percent in 1 .. 100 and watermark size
\* (ow, oh) the watermark is resized to the width floor(W * s / 100) and to
\* the height that is targetW * oh / ow rounded to nearest.
C12_FloorAndRound ==
  Called("size") =>
    /\ IsFloor(g_result.target[1],
               Rat(g_args.base_width * g_args.scale_percent, 100))
    /\ IsRound(g_result.target[2], g_result.target[1] * g_args.wsize[2],
               g_args.wsize[1])

\* C13: with an opacity below 100 every alpha level of the watermark image
\* is multiplied by opacity / 100: the result is within one level of
\* alpha * opacity / 100, never above the alpha it came from, 0 when the
\* opacity is 0 and 0 for a level of 0; with an opacity of 100 the level is
\* left as it is.
C13_AlphaScaled ==
  Called("opacity") =>
    LET a == g_args.a
        opacity == g_args.image_opacity
        out == g_result.a
    IN  /\ opacity < 100 =>
             /\ Abs(100 * out - a * opacity) <= 100
             /\ out <= a
             /\ opacity = 0 => out = 0
             /\ a = 0 => out = 0
        /\ opacity = 100 => out = a

\* C13's case: half the opacity on an opaque pixel, where the product
\* 127.5 loses its fraction
C13_Witness ==
  /\ Called("opacity")
  /\ g_args.a = 255
  /\ g_args.image_opacity = 50
  /\ g_result.a = 127

\* paste is where C14 puts a layer of size rotated for a text of size ts
\* resolved to xy, and the centre of the layer is then within one pixel of
\* the centre of the text box in each coordinate (said in half pixels)
RecentredPaste(paste, xy, ts, rotated) ==
  \A i \in {1, 2} :
    /\ IsFloorHalf(xy[i] - paste[i], rotated[i] - ts[i])
    /\ Abs((2 * paste[i] + rotated[i]) - (2 * xy[i] + ts[i])) <= 2

\* C14: a rotated text layer of size (rw, rh) is pasted at
\* (x - floor((rw - tw) / 2), y - floor((rh - th) / 2)) for the position
\* (x, y) resolved for the unrotated text size (tw, th), so that the centre
\* of the layer is within one pixel of the centre of the unrotated text
\* box; process_single_image places the rotated text of a file so.
C14_RotatedRecentred ==
  /\ Called("rotated") =>
       RecentredPaste(g_result.paste, g_args.xy, g_args.ts, g_args.rotated)
  /\ (/\ Called("single")
      /\ g_args.s.watermark_type = "Text"
      /\ g_args.s.rotation_angle # 0
      /\ g_result.single.success) =>
       \A f \in g_result.single.saved :
         LET ts == textbbox(ExifDate(g_args.item), g_args.s.font_size)
         IN  RecentredPaste(f.image.paste,
               get_position_coordinates(f.image.size, ts, g_args.s.position,
                                        RInt(0), RInt(0)),
               ts, f.image.layer_size)

\* C14's case: the layer is an odd number of pixels wider than the text,
\* so that its centre is half a pixel off the centre of the text
C14_Witness ==
  /\ Called("rotated")
  /\ g_args.ts = <<3, 1>>
  /\ g_args.rotated = <<11, 6>>
  /\ g_result.paste[1] = g_args.xy[1] - 4
  /\ g_result.paste[2] = g_args.xy[2] - 2

\* pixel is, within one level of rounding, the layer pixel laid over an
\* opaque base pixel: layer.c weighted by layer.a / 255 and base.c by the
\* rest, and an opaque result
IsOver(pixel, layer, base) ==
  /\ Abs(255 * pixel.c - (layer.c * layer.a + base.c * (255 - layer.a))) <= 255
  /\ Abs(255 * pixel.a - (255 * layer.a + base.a * (255 - layer.a))) <= 255

\* C15: in every watermark path (unrotated text, rotated text, image
\* watermark) a pixel of an opaque image touched by the watermark layer
\* receives the alpha-over result, outRGB = layerRGB * layerA + baseRGB *
\* (1 - layerA) and outA = layerA + baseA * (1 - layerA).
C15_AlphaOver ==
  (Called("composite") /\ g_args.base.a = 255) =>
    IsOver(g_result.pixel, g_args.layer, g_args.base)

\* C16: for JPEG output a pixel of the composited canvas is flattened onto
\* opaque white, outRGB = srcRGB * srcA + 255 * (1 - srcA) (to the nearest
\* level), so that a fully transparent pixel becomes white and a fully
\* opaque one keeps its colour; for PNG output the pixel is written with
\* its alpha unchanged; the extension is .jpg exactly when the format is
\* JPEG and .png otherwise, as is the file process_single_image saves.
C16_Encoding ==
  /\ Called("encode") =>
       LET src == g_args.pixel
           out == g_result.pixel
       IN  /\ g_args.format = "JPEG" =>
                /\ out.a = 255
                /\ 2 * Abs(255 * out.c - (src.c * src.a + 255 * (255 - src.a))) <= 255
                /\ src.a = 0 => out.c = 255
                /\ src.a = 255 => out.c = src.c
           /\ g_args.format # "JPEG" => out = src
           /\ g_result.ext = ".jpg" <=> g_args.format = "JPEG"
           /\ g_result.ext = ".png" <=> g_args.format # "JPEG"
  /\ (Called("single") /\ g_result.single.success) =>
       LET jpeg == g_args.s.output_format = "JPEG"
       IN  \A f \in g_result.single.saved :
             /\ f.path = "out/" \o Stem(g_args.item) \o "_watermarked"
                           \o (IF jpeg THEN ".jpg" ELSE ".png")
             /\ f.format = IF jpeg THEN "JPEG" ELSE "PNG"
             /\ jpeg => f.image.pixel.a = 255

\* C16's case: a half transparent dark pixel is saved as JPEG, half way to
\* white
C16_Witness ==
  /\ Called("encode")
  /\ g_args.format = "JPEG"
  /\ g_args.pixel = [c |-> 1, a |-> 128]
  /\ g_result.pixel = [c |-> 128, a |-> 255]
  /\ g_result.ext = ".jpg"

\* The saved file f of a successful process_single_image has the size the
\* resize policy asks for, and its watermark is sized and placed (at the
\* "center" anchor) for that size: an image watermark of width
\* floor(width * scale / 100), or, unless exact, possibly one less, a text
\* at the anchor of its unrotated size.
ResizedBaseUsed(f, exact) ==
  LET s == g_args.s
      original == ImageSize(g_args.item)
      size == f.image.size
      layer == f.image.layer_size
      width == IF s.rotation_angle = 0 THEN layer[1] ELSE layer[2]
      floor_width == (size[1] * s.image_scale) \div 100
      ts == textbbox(ExifDate(g_args.item), s.font_size)
      anchor(content) == <<(size[1] - content[1]) \div 2, (size[2] - content[2]) \div 2>>
  IN  /\ s.resize_option = "width" => size[1] = s.resize_value
      /\ s.resize_option = "height" => size[2] = s.resize_value
      /\ s.resize_option = "percent" =>
           size = <<(original[1] * s.resize_value) \div 100,
                    (original[2] * s.resize_value) \div 100>>
      /\ s.resize_option \notin {"width", "height", "percent"} => size = original
      /\ s.watermark_type = "Image" =>
           /\ width = floor_width \/ (~exact /\ width = floor_width - 1)
           /\ f.image.paste = anchor(layer)
      /\ s.watermark_type = "Text" =>
           f.image.paste = IF s.rotation_angle = 0 THEN anchor(ts)
                           ELSE rotated_paste(anchor(ts), ts, layer)

GuiBatchCompletes ==
  \A n \in 1 .. Len(workers) :
    workers[n].done =>
      LET w == workers[n]
      IN  /\ [i \in 1 .. Len(w.log) |-> w.log[i].item] = image_items
          /\ w.total_count = Len(image_items)
          /\ \A i \in 1 .. Len(w.log) :
               w.log[i].success =
                 process_single_image(image_items[i], w.output_dir, w.params).success
          /\ w.success_count =
               Cardinality({i \in 1 .. Len(w.log) : w.log[i].success})

\* the command line run on a directory holding the images of the list
\* reports each of them once
CliRunCompletes(case_insensitive) ==
  LET cli == cli_process_directory(cli_image_files(image_items, case_insensitive))
  IN  /\ cli.total = Len(image_items)
      /\ cli.success = Cardinality(Dated(image_items))

\* C18: a batch never aborts on a per-image failure: every image of the
\* list is attempted once in list order, and the summary reports
\* succeeded/total with total the number of images N and succeeded the
\* number of images whose processing returned success, in the batch worker
\* of the interactive surface and in the directory run of the command line
\* tool (on every platform).
C18_BatchNeverAborts ==
  /\ GuiBatchCompletes
  /\ \A case_insensitive \in BOOLEAN : CliRunCompletes(case_insensitive)

\* C19: every update the batch worker thread makes to the widgets (the
\* maximum and the value of the progress bar, the status text, the
\* completion dialog) is delivered through root.after; the worker thread
\* never configures a widget itself.
C19_OnlyThroughAfter == widgets.by_worker = {}

\* C20: under every interleaving of a running batch with the operations of
\* the interactive surface (add files, clear list, change settings), the
\* worker processes exactly the images that were in the list when the batch
\* started, each once, and the total it reports is the number of images it
\* attempted.
C20_ListAtStartProcessed ==
  \A n \in 1 .. Len(workers) :
    workers[n].done =>
      /\ [i \in 1 .. Len(workers[n].log) |-> workers[n].log[i].item]
           = workers[n].list_at_start
      /\ workers[n].total_count = Len(workers[n].log)

\* the batch workers that have been started and have not finished
Running == {n \in 1 .. Len(workers) : ~workers[n].done}

\* C21: at most one batch worker is running in every reachable state, also
\* when 'start processing' is pressed again while a batch is running
C21_SingleWorker ==
  Cardinality(Running) <= 1

\* the messages of the failures of the resize of the picture, of the text,
\* of the path of the watermark image and of its rendering
FailureReasons ==
  {"height and width must be > 0", "no EXIF date", "custom text is empty",
   "invalid watermark path", "cannot identify image file"}

\* C22: process_single_image writes the output file only after the resize
\* and the watermark rendering succeeded: a call that returns (False,
\* reason) has written no file, and a call that has written a file wrote
\* exactly the one output file of that image and returns success; the
\* command line tool writes no file for an image it reports as failed
C22_WriteAfterSuccess ==
  Called("single") =>
    LET r == g_result.single
        cli == cli_add_watermark(g_args.item, 36, "bottom-right", "in/in_watermark")
    IN  /\ ~r.success => r.saved = {} /\ r.message \in FailureReasons
        /\ r.success => Cardinality(r.saved) = 1
        /\ \A f \in r.saved :
             /\ f.path = OutputPath("out", g_args.item,
                                    output_ext(g_args.s.output_format))
             /\ f.image # NoImage
        /\ ~cli.ok => cli.saved = {}

\* C22's case: the watermark image of the settings does not exist, the
\* call fails with that reason and nothing is written
C22_Witness ==
  /\ Called("single")
  /\ g_args.s.watermark_type = "Image"
  /\ g_args.s.image_watermark_path = "gone.png"
  /\ g_args.s.resize_option = "width"
  /\ g_args.s.resize_value = 50
  /\ ~g_result.single.success
  /\ g_result.single.message = "invalid watermark path"
  /\ g_result.single.saved = {}

\* C23: a worker is started only with a non-empty list and an output
\* folder, and, when the output folder is the folder of a listed picture,
\* only after the user confirmed; a press the user declines starts no
\* worker and writes no file; files are written by started workers only
C23_StartGuarded ==
  [][
      /\ Len(workers') > Len(workers) =>
          /\ image_items # <<>>
          /\ output_dir # ""
          /\ (Asked => (g_args'.asked /\ g_args'.answer))
      /\ (g_args' # g_args /\ g_args'.asked /\ ~g_args'.answer) =>
          /\ workers' = workers
          /\ out_files' = out_files
      /\ out_files' # out_files => workers # <<>>
  ]_vars

\* C23's case: the output folder is the folder of the listed pictures, the
\* user was asked and declined, and there is no worker and no file
C23_Witness ==
  /\ g_args = [op |-> "process_images", asked |-> TRUE, answer |-> FALSE]
  /\ output_dir = "in"
  /\ image_items # <<>>
  /\ workers = <<>>
  /\ out_files = {}

\* C24: a pixel of a fully opaque image is fully opaque after the
\* watermark, for the text and the image watermark, every opacity and
\* every rotation
C24_OpaqueStaysOpaque ==
  (Called("composite") /\ g_args.base.a = 255) => g_result.pixel.a = 255

\* C25: during one drag at a constant scale s the manual offset after a
\* pointer-down at c0 inside the image and pointer-moves to c1, ..., cn is
\* toSource(c0) + (cn - c0) / s, whatever the intermediate moves
C25_DragPathIndependent ==
  g_result.pressed =>
    LET fs == float_final_scale(CanvasSize, g_args.size)
        cn == g_result.drag_start
    IN  \E orig_dx \in {IntDivF(cn[1] - g_args.c0[1], fs, 53)},
           orig_dy \in {IntDivF(cn[2] - g_args.c0[2], fs, 53)} :
          /\ g_result.watermark_x_offset = FAdd(FInt(g_args.at[1]), orig_dx, 53)
          /\ g_result.watermark_y_offset = FAdd(FInt(g_args.at[2]), orig_dy, 53)

\* C26: a progress message on the status label pairs the index i + 1 with
\* the name of the image the worker took from the list at index i,
\* whenever the main loop runs the callback
C26_StatusNameMatchesIndex ==
  widgets.status_label.kind = "processing" =>
    LET w == workers[widgets.status_label.n]
    IN  widgets.status_label.name = Name(w.log[widgets.status_label.i].item)

\* C27: the image selected for preview is none or an element of the image
\* list, after any add-files, clear-list and select-image operations
C27_PreviewItemListed ==
  \/ current_preview_item = NoItem
  \/ \E i \in 1 .. Len(image_items) : image_items[i] = current_preview_item

\* x is within one pixel of y scaled by new / old
ScaledWithinOne(x, y, old, new) ==
  /\ x * old <= y * new + old
  /\ y * new <= x * old + old

\* C28: the preview render and the batch render of the same image with
\* the same settings place the watermark identically relative to the image:
\* the paste coordinate of process_single_image is the paste coordinate of
\* update_preview_image scaled by the resize factor
C28_PreviewMatchesBatch ==
  (Called("placed") /\ g_result.single.success /\ g_result.preview.status = "ok") =>
    \A f \in g_result.single.saved :
      \A k \in 1 .. 2 :
        ScaledWithinOne(f.image.paste[k], g_result.preview.image.paste[k],
                        ImageSize(g_args.item)[k], f.image.size[k])

\* C29: within one batch, distinct source images are written to distinct
\* output paths; no output of the batch is overwritten by a later image
\* of the same batch
C29_DistinctOutputs ==
  g_args.op = "names" =>
    \A i, j \in 1 .. Len(g_result.written) :
      i # j => g_result.written[i].path # g_result.written[j].path

\* C30: saving the settings (save_settings or save_last_settings) and then
\* loading that document (apply_template or load_last_settings) from any
\* other state restores exactly the saved value of every field; a field
\* missing from the document takes its default
C30_TemplateRoundTrip ==
  (g_args.op = "save" /\ g_result.done) =>
    \A key \in SettingKeys :
      g_result.loaded[key] =
        IF key \in g_result.missing THEN AllDefaults[key] ELSE g_args.settings[key]

\* C30's case: settings in manual mode with fractional and negative
\* offsets, a text with a quotation mark and a folder with a backslash are
\* saved as a template and applied to settings that differ in every field
C30_Witness ==
  /\ g_args.op = "save"
  /\ g_result.done
  /\ g_args.via = "save_settings"
  /\ g_result.via = "apply_template"
  /\ g_result.missing = {}
  /\ g_result.before # AllDefaults
  /\ g_args.settings.manual_position
  /\ g_args.settings.watermark_x_offset = <<25, 2>>
  /\ g_args.settings.watermark_y_offset = <<-15, 4>>
  /\ g_args.settings.custom_watermark_text = "a\"b"
  /\ g_args.settings.output_dir = "C:\\out"
  /\ g_result.document["watermark_x_offset"] = <<"1", "2", ".", "5">>
  /\ g_result.document["watermark_y_offset"] = <<"-", "3", ".", "7", "5">>
  /\ g_result.document["output_dir"] = <<"\"", "C", ":", "\\", "\\", "o", "u", "t", "\"">>
  /\ g_result.loaded = g_args.settings

============================================================================
